---- MODULE Spec2Model ----
(***************************************************************************)
(* A model of the MTG Proxy Builder (src/app.js, second revision, lines    *)
(* 527-1391): card index, card resolution (loadCards), slot expansion and  *)
(* image acquisition (generatePreview), pagination and cut-guide geometry  *)
(* (renderPreview, drawPage, drawCutLinesCanvas, generatePDF,              *)
(* drawCutLinesPDF).                                                       *)
(*                                                                         *)
(* Strings that the program inspects character by character (card names,   *)
(* set codes, input lines) are sequences of one-character strings.         *)
(* The absent string (null / undefined / '') is the empty sequence where   *)
(* the program only tests it for truthiness.  Absent records are Null.     *)
(***************************************************************************)
EXTENDS Integers, Sequences, FiniteSets, TLC

VARIABLES
    cardDB,        \* name index: [loaded, map]  (let cardDB, app.js:564)
    oracleIndex,   \* oracle index: [loaded, map] (let oracleIndex, app.js:565)
    cardDBReady,   \* let cardDBReady, app.js:566
    dbPhase,       \* position of loadCardDB: "fetching" | "done"
    clicks,        \* history: number of user actions so far
    lookupArgs,    \* arguments of the last lookupCard call made by Lookup
    lookupRes,     \* its result
    parseArg,      \* the line of the last parseInput call made by Parse
    parseRes,      \* its result
    allImages,     \* flat image list (let allImages, app.js:558)
    pageCount,     \* let pageCount, app.js:559
    currentView,   \* 'empty' | 'cards' | 'preview' (app.js:561)
    settings,      \* the settings controls read by getSettings (app.js:581-589)
    btnDownloadDisabled, \* dom.btnDownload.disabled
    pageContainer, \* children of dom.pageContainer: the page canvases
    renderRuns,    \* renderPreview calls suspended at an await
    btnLoadCardsDisabled, \* dom.btnLoadCards.disabled
    btnGenerateDisabled,  \* dom.btnGenerate.disabled
    cardSlots,     \* let cardSlots, app.js:570
    errorLog,      \* children of dom.errorLog
    openPopoverIdx,\* let openPopoverIdx, app.js:573
    popover,       \* the #variantPopover element and its option closures, or Null
    listRows,      \* rows of dom.cardListView: TRUE for a row with a thumbnail
    listStats,     \* the numbers shown in dom.cardListStats, or Null
    loadRuns,      \* loadCards calls suspended at an await
    genRuns,       \* generatePreview calls suspended at an await
    docListening,  \* the document has the click and keydown listeners of the popover
    rafPending,    \* a requestAnimationFrame callback of openVariantPopover is pending
    prov,          \* history: for each slot of cardSlots, how it was resolved
    resolved,      \* history: entries and slots of the last loadCards call that
                   \* ran on the loaded index, or Null
    cleared,       \* history: Clear was clicked and Load Cards not since
    lastEvent      \* history: the handler that ran last

Null == [null |-> TRUE]

----------------------------------------------------------------------------
(* Characters and strings *)

Lowers == {"a", "b", "x", "y", "z"}
Uppers == {"A", "B", "X", "Y", "Z"}
Digits == {"0", "1", "2", "3"}

\* String.prototype.toLowerCase on one character
LowerChar(c) ==
    CASE c = "A" -> "a" [] c = "B" -> "b" [] c = "X" -> "x"
      [] c = "Y" -> "y" [] c = "Z" -> "z" [] OTHER -> c

\* String.prototype.toUpperCase on one character
UpperChar(c) ==
    CASE c = "a" -> "A" [] c = "b" -> "B" [] c = "x" -> "X"
      [] c = "y" -> "Y" [] c = "z" -> "Z" [] OTHER -> c

toLowerCase(s) == [i \in 1..Len(s) |-> LowerChar(s[i])]

toUpperCase(s) == [i \in 1..Len(s) |-> UpperChar(s[i])]

\* The value of a missing property (card.n of a malformed record)
UNDEF == <<"undefined">>

Spaces == {" "}

\* \w of the regular expression of parseInput
WordChars == Lowers \cup Uppers \cup Digits

RECURSIVE LeadIn(_, _)
\* number of leading characters of s that are in cs
LeadIn(s, cs) ==
    IF Len(s) > 0 /\ Head(s) \in cs THEN 1 + LeadIn(Tail(s), cs) ELSE 0

RECURSIVE TrailIn(_, _)
\* number of trailing characters of s that are in cs
TrailIn(s, cs) ==
    IF Len(s) > 0 /\ s[Len(s)] \in cs
    THEN 1 + TrailIn(SubSeq(s, 1, Len(s) - 1), cs) ELSE 0

Drop(s, k) == SubSeq(s, k + 1, Len(s))
Take(s, k) == SubSeq(s, 1, k)

\* String.prototype.trim
trim(s) ==
    LET t == Drop(s, LeadIn(s, Spaces))
    IN  Take(t, Len(t) - TrailIn(t, Spaces))

DigitValue(c) == CASE c = "0" -> 0 [] c = "1" -> 1 [] c = "2" -> 2 [] OTHER -> 3

RECURSIVE parseInt(_)
\* parseInt(s, 10) of a string of digits
parseInt(s) ==
    IF Len(s) = 0 THEN 0
    ELSE 10 * parseInt(SubSeq(s, 1, Len(s) - 1)) + DigitValue(s[Len(s)])

----------------------------------------------------------------------------
(* Input parser: parseInput (app.js:669-680) *)

\* t matches (?:\s*\[(\w+)\])\s*$ with the bracket group taken
TailWithSet(t) ==
    LET u == Drop(t, LeadIn(t, Spaces))
        w == IF Len(u) > 0 THEN LeadIn(Tail(u), WordChars) ELSE 0
    IN  /\ Len(u) > 0
        /\ u[1] = "["
        /\ w >= 1
        /\ Len(u) >= w + 2
        /\ u[w + 2] = "]"
        /\ LeadIn(Drop(u, w + 2), Spaces) = Len(u) - (w + 2)

\* the text of group 3 when TailWithSet(t)
TailSet(t) ==
    LET u == Drop(t, LeadIn(t, Spaces))
    IN  SubSeq(u, 2, LeadIn(Tail(u), WordChars) + 1)

\* t matches \s*$
TailBlank(t) == LeadIn(t, Spaces) = Len(t)

\* t matches (?:\s*\[(\w+)\])?\s*$
TailOk(t) == TailWithSet(t) \/ TailBlank(t)

\* the groups of a match in which (.*?) took the first k characters of r
Groups(t, nd, r, k) ==
    [m1 |-> Take(t, nd),
     m2 |-> Take(r, k),
     m3 |-> IF TailWithSet(Drop(r, k)) THEN TailSet(Drop(r, k)) ELSE <<>>]

\* (.*?) is lazy: it takes the shortest text of r after which the rest
\* matches, the bracket group being tried before its omission
MatchRest(t, nd, r) ==
    Groups(t, nd, r,
           CHOOSE j \in 0..Len(r) :
               TailOk(Drop(r, j)) /\ \A i \in 0..(j - 1) : ~TailOk(Drop(r, i)))

SkipSpaces(s) == Drop(s, LeadIn(s, Spaces))

\* (\d+)? and \s* are greedy and what follows them matches any text, so
\* they take all they can: nd digits, then the spaces
MatchDigits(t, nd) == MatchRest(t, nd, SkipSpaces(Drop(t, nd)))

MatchTrimmed(t) == MatchDigits(t, LeadIn(t, Digits))

\* line.trim().match(/^(\d+)?\s*(.*?)(?:\s*\[(\w+)\])?\s*$/)
MatchLine(line) == MatchTrimmed(trim(line))

\* n || 1
OrOne(n) == IF n = 0 THEN 1 ELSE n

\* a quantity that ignores the leading integer; C23 rules it out
QtyOne(m1) == 1

\* parseInt(m[1], 10) || 1, m[1] undefined when the group took nothing
Qty(m1) == IF Len(m1) = 0 THEN 1 ELSE OrOne(parseInt(m1))

\* the callback of lines.map after the match: Null for a line without a name
EntryOf(m, name) ==
    IF Len(name) = 0 THEN Null
    ELSE [qty  |-> Qty(m.m1),
          name |-> name,
          set  |-> IF Len(m.m3) > 0 THEN toUpperCase(m.m3) ELSE <<>>]

ParseMatch(m) == EntryOf(m, trim(m.m2))

ParseLine(line) == ParseMatch(MatchLine(line))

\* .filter(Boolean)
Keep(e, rest) == IF e = Null THEN rest ELSE <<e>> \o rest

RECURSIVE ParseLines(_)
ParseLines(lines) ==
    IF Len(lines) = 0 THEN <<>>
    ELSE IF Len(trim(Head(lines))) = 0 THEN ParseLines(Tail(lines))
    ELSE Keep(ParseLine(Head(lines)), ParseLines(Tail(lines)))

\* A text is the sequence of its lines (text.split('\n')).
parseInput(text) == ParseLines(text)

\* text.trim() is empty
BlankText(text) == \A i \in 1..Len(text) : Len(trim(text[i])) = 0

----------------------------------------------------------------------------
(* Card index: loadCardDB, lookupCard, getVariants *)

EmptyMap == [loaded |-> TRUE, map |-> <<>>]
NoMap    == [loaded |-> FALSE, map |-> <<>>]

MapHas(m, k) == k \in DOMAIN m.map

\* a push that puts the record at the head of its bucket; C24 rules it out
MapPushFront(m, k, v) ==
    [m EXCEPT !.map =
        IF k \in DOMAIN m.map
        THEN [m.map EXCEPT ![k] = <<v>> \o @]
        ELSE [x \in (DOMAIN m.map) \cup {k} |-> IF x = k THEN <<v>> ELSE m.map[x]]]

MapPush(m, k, v) ==
    [m EXCEPT !.map =
        IF k \in DOMAIN m.map
        THEN [m.map EXCEPT ![k] = Append(@, v)]
        ELSE [x \in (DOMAIN m.map) \cup {k} |-> IF x = k THEN <<v>> ELSE m.map[x]]]

\* One iteration of the loop of loadCardDB over the records (app.js:612-623).
\* card.n.toLowerCase() throws on a record without a name.
IndexStep(st, card) ==
    IF st.threw THEN st
    ELSE IF card.n = UNDEF THEN [st EXCEPT !.threw = TRUE]
    ELSE [st EXCEPT
            !.db = MapPush(@, toLowerCase(card.n), card),
            !.oi = IF card.o # "" THEN MapPush(@, card.o, card) ELSE @]

RECURSIVE IndexLoop(_, _, _)
IndexLoop(st, cards, i) ==
    IF i > Len(cards) THEN st
    ELSE IndexLoop(IndexStep(st, cards[i]), cards, i + 1)

\* The try block of loadCardDB from "cardDB = new Map()" on (app.js:607-625)
BuildIndex(cards) ==
    IndexLoop([db |-> EmptyMap, oi |-> EmptyMap, threw |-> FALSE], cards, 1)

\* Array.prototype.find(c => c.s === setLower)
RECURSIVE FindSet(_, _, _)
FindSet(matches, setLower, i) ==
    IF i > Len(matches) THEN Null
    ELSE IF matches[i].s = setLower THEN matches[i]
    ELSE FindSet(matches, setLower, i + 1)

\* a lookup that falls back to the first record of the bucket when no
\* record has the requested set; C4 rules it out
lookupCardFallback(db, name, set) ==
    IF ~db.loaded THEN Null
    ELSE LET key == toLowerCase(name) IN
         IF ~MapHas(db, key) THEN Null
         ELSE LET matches == db.map[key] IN
              IF Len(matches) = 0 THEN Null
              ELSE IF set # <<>> /\ FindSet(matches, toLowerCase(set), 1) # Null
                   THEN FindSet(matches, toLowerCase(set), 1)
                   ELSE matches[1]

\* lookupCard (app.js:647-660) on the index db
lookupCardIn(db, name, set) ==
    IF ~db.loaded THEN Null
    ELSE LET key == toLowerCase(name) IN
         IF ~MapHas(db, key) THEN Null
         ELSE LET matches == db.map[key] IN
              IF Len(matches) = 0 THEN Null
              ELSE IF set # <<>>
                   THEN FindSet(matches, toLowerCase(set), 1)
                   ELSE matches[1]

\* positions of the records of the bucket whose image the last preview holds
Fetched(matches) ==
    { m \in 1..Len(matches) :
        \E j \in 1..Len(allImages) : allImages[j].data.id = matches[m].id }

\* a lookup that prefers a printing whose image was fetched for the last
\* preview; C22 rules it out
lookupCardSticky(name, set) ==
    IF cardDB.loaded /\ MapHas(cardDB, toLowerCase(name))
       /\ Fetched(cardDB.map[toLowerCase(name)]) # {}
    THEN cardDB.map[toLowerCase(name)][
             CHOOSE m \in Fetched(cardDB.map[toLowerCase(name)]) :
                 \A k \in Fetched(cardDB.map[toLowerCase(name)]) : m <= k]
    ELSE lookupCardIn(cardDB, name, set)

lookupCard(name, set) == lookupCardIn(cardDB, name, set)

getVariants(oracleId) ==
    IF ~oracleIndex.loaded \/ oracleId = "" THEN <<>>
    ELSE IF MapHas(oracleIndex, oracleId) THEN oracleIndex.map[oracleId] ELSE <<>>

----------------------------------------------------------------------------
(* Geometry constants (app.js:545-554).  A length in millimetres or in     *)
(* canvas pixels is held as an integer number of quarters of the unit, so  *)
(* 10.5 mm is 42 and 26.25 px is 105; every value the program computes is  *)
(* a multiple of a quarter and exact in floating point.                    *)

CARD_W_MM == 63
CARD_H_MM == 88
PAGE_W_MM == 210
PAGE_H_MM == 297
COLS == 3
ROWS == 3
CARDS_PER_PAGE == COLS * ROWS

Mm(v) == 4 * v

MARGIN_X == (Mm(PAGE_W_MM) - COLS * Mm(CARD_W_MM)) \div 2
MARGIN_Y == (Mm(PAGE_H_MM) - ROWS * Mm(CARD_H_MM)) \div 2

\* x * PREVIEW_SCALE, PREVIEW_SCALE = 2.5 (app.js:554)
Scale(x) == (x * 5) \div 2

Min(a, b) == IF a < b THEN a ELSE b

\* Math.ceil(a / b) for b > 0
CeilDiv(a, b) == IF a % b = 0 THEN a \div b ELSE (a \div b) + 1

\* Math.floor(a / b) for b > 0
FloorDiv(a, b) == a \div b

Seg(x1, y1, x2, y2) == [x1 |-> x1, y1 |-> y1, x2 |-> x2, y2 |-> y2]

\* [f(0), f(1), ..., f(n)] for the loops "for (k = 0; k <= n; k++)"
UpTo(n) == IF n < 0 THEN <<>> ELSE [k \in 1..(n + 1) |-> k - 1]

RECURSIVE Flatten(_)
Flatten(ss) == IF Len(ss) = 0 THEN <<>> ELSE Head(ss) \o Flatten(Tail(ss))

----------------------------------------------------------------------------
(* Cut guides on the preview canvas: drawCutLinesCanvas, drawCornerMarks *)

\* horizontal lines that all span the filled columns; C25 rules them out
GridColsFull(row, filledRows, filledCols, lastRowCols) == filledCols

\* const cols = (row === filledRows) ? lastRowCols : filledCols  (app.js:1128)
GridCols(row, filledRows, filledCols, lastRowCols) ==
    IF row = filledRows THEN lastRowCols ELSE filledCols

\* a span that stops the line on the right of the last card early; C9 rules it out
GridRowSpanStrict(col, filledRows, lastRowCols) ==
    IF col < lastRowCols THEN filledRows ELSE filledRows - 1

\* const rowSpan = (col <= lastRowCols) ? filledRows : (filledRows - 1)  (app.js:1136)
GridRowSpan(col, filledRows, lastRowCols) ==
    IF col <= lastRowCols THEN filledRows ELSE filledRows - 1

\* corner marks whose first stroke runs along the top edge of the card;
\* C10 rules them out
drawCornerMarksInward(x1, y1, x2, y2, len) ==
    << Seg(x1, y1, x1 + len, y1), Seg(x1, y1 - len, x1, y1),
       Seg(x2, y1, x2 + len, y1), Seg(x2, y1 - len, x2, y1),
       Seg(x1 - len, y2, x1, y2), Seg(x1, y2, x1, y2 + len),
       Seg(x2, y2, x2 + len, y2), Seg(x2, y2, x2, y2 + len) >>

\* drawCornerMarks (app.js:1157-1166)
drawCornerMarks(x1, y1, x2, y2, len) ==
    << Seg(x1 - len, y1, x1, y1), Seg(x1, y1 - len, x1, y1),
       Seg(x2, y1, x2 + len, y1), Seg(x2, y1 - len, x2, y1),
       Seg(x1 - len, y2, x1, y2), Seg(x1, y2, x1, y2 + len),
       Seg(x2, y2, x2 + len, y2), Seg(x2, y2, x2, y2 + len) >>

\* The segments stroked by drawCutLinesCanvas, in stroke order, for a list of
\* n images (n = allImages.length when it runs).
drawCutLinesCanvas(n, cutLines, startIdx) ==
    LET cardsOnPage == Min(n - startIdx, CARDS_PER_PAGE)
        filledCols  == Min(cardsOnPage, COLS)
        filledRows  == CeilDiv(cardsOnPage, COLS)
        lastRowCols == cardsOnPage - (filledRows - 1) * COLS
        rows == UpTo(filledRows)
        cols == UpTo(filledCols)
    IN  IF cutLines = "grid" THEN
            [k \in 1..Len(rows) |->
                LET row == rows[k]
                    y == Scale(MARGIN_Y + row * Mm(CARD_H_MM))
                    c == GridCols(row, filledRows, filledCols, lastRowCols)
                IN  Seg(Scale(MARGIN_X), y, Scale(MARGIN_X + c * Mm(CARD_W_MM)), y)]
            \o
            [k \in 1..Len(cols) |->
                LET col == cols[k]
                    x == Scale(MARGIN_X + col * Mm(CARD_W_MM))
                    rowSpan == GridRowSpan(col, filledRows, lastRowCols)
                IN  Seg(x, Scale(MARGIN_Y), x, Scale(MARGIN_Y + rowSpan * Mm(CARD_H_MM)))]
        ELSE IF cutLines = "corners" THEN
            Flatten([k \in 1..cardsOnPage |->
                LET i == k - 1
                    row == FloorDiv(i, COLS)
                    col == i % COLS
                    x1 == Scale(MARGIN_X + col * Mm(CARD_W_MM))
                    y1 == Scale(MARGIN_Y + row * Mm(CARD_H_MM))
                    x2 == x1 + Scale(Mm(CARD_W_MM))
                    y2 == y1 + Scale(Mm(CARD_H_MM))
                IN  drawCornerMarks(x1, y1, x2, y2, Scale(Mm(4)))])
        ELSE <<>>

\* ctx.setLineDash of drawCutLinesCanvas (app.js:1114-1118)
CanvasDash(cutStyle) ==
    IF cutStyle = "dashed" THEN <<Scale(Mm(3)), Scale(Mm(3))>> ELSE <<>>

\* ctx.lineWidth = settings.cutWidth * s  (app.js:1112)
CanvasLineWidth(cutWidth) == Scale(cutWidth)

----------------------------------------------------------------------------
(* Cut guides in the exported document: drawCutLinesPDF *)

\* const cols = (row === filledRows) ? lastRowCols : filledCols  (app.js:1222)
PdfGridCols(row, filledRows, filledCols, lastRowCols) ==
    IF row = filledRows THEN lastRowCols ELSE filledCols

\* const rowSpan = (col <= lastRowCols) ? filledRows : (filledRows - 1)  (app.js:1227)
PdfGridRowSpan(col, filledRows, lastRowCols) ==
    IF col <= lastRowCols THEN filledRows ELSE filledRows - 1

\* The eight doc.line calls of one cell (app.js:1239-1246)
PdfCornerMarks(x1, y1, x2, y2, markLen) ==
    << Seg(x1 - markLen, y1, x1, y1), Seg(x1, y1 - markLen, x1, y1),
       Seg(x2, y1, x2 + markLen, y1), Seg(x2, y1 - markLen, x2, y1),
       Seg(x1 - markLen, y2, x1, y2), Seg(x1, y2, x1, y2 + markLen),
       Seg(x2, y2, x2 + markLen, y2), Seg(x2, y2, x2, y2 + markLen) >>

drawCutLinesPDF(n, cutLines, startIdx) ==
    LET cardsOnPage == Min(n - startIdx, CARDS_PER_PAGE)
        filledCols  == Min(cardsOnPage, COLS)
        filledRows  == CeilDiv(cardsOnPage, COLS)
        lastRowCols == cardsOnPage - (filledRows - 1) * COLS
        rows == UpTo(filledRows)
        cols == UpTo(filledCols)
    IN  IF cutLines = "grid" THEN
            [k \in 1..Len(rows) |->
                LET row == rows[k]
                    y == MARGIN_Y + row * Mm(CARD_H_MM)
                    c == PdfGridCols(row, filledRows, filledCols, lastRowCols)
                IN  Seg(MARGIN_X, y, MARGIN_X + c * Mm(CARD_W_MM), y)]
            \o
            [k \in 1..Len(cols) |->
                LET col == cols[k]
                    x == MARGIN_X + col * Mm(CARD_W_MM)
                    rowSpan == PdfGridRowSpan(col, filledRows, lastRowCols)
                IN  Seg(x, MARGIN_Y, x, MARGIN_Y + rowSpan * Mm(CARD_H_MM))]
        ELSE IF cutLines = "corners" THEN
            Flatten([k \in 1..cardsOnPage |->
                LET i == k - 1
                    row == FloorDiv(i, COLS)
                    col == i % COLS
                    x1 == MARGIN_X + col * Mm(CARD_W_MM)
                    y1 == MARGIN_Y + row * Mm(CARD_H_MM)
                    x2 == x1 + Mm(CARD_W_MM)
                    y2 == y1 + Mm(CARD_H_MM)
                IN  PdfCornerMarks(x1, y1, x2, y2, Mm(4))])
        ELSE <<>>

\* doc.setLineDashPattern of drawCutLinesPDF (app.js:1208-1212)
PdfDash(cutStyle) ==
    IF cutStyle = "dashed" THEN <<Mm(2), Mm(2)>> ELSE <<>>

\* doc.setLineWidth(settings.cutWidth)  (app.js:1207)
PdfLineWidth(cutWidth) == cutWidth

----------------------------------------------------------------------------
(* Preview rendering: renderPreview, drawPage (app.js:1043-1107) *)

\* a pagination that drops a partial last page; C7 rules it out
PageCountFloor(n) == FloorDiv(n, CARDS_PER_PAGE)

\* pageCount = Math.ceil(allImages.length / CARDS_PER_PAGE)  (app.js:1045)
PageCountOf(n) == CeilDiv(n, CARDS_PER_PAGE)

\* a column-major index; C8 rules it out
CellIndexColumnMajor(startIdx, row, col) == startIdx + col * COLS + row

\* const idx = startIdx + row * COLS + col  (app.js:1088)
CellIndex(startIdx, row, col) == startIdx + row * COLS + col

\* an image position that leaves the page margin unscaled; C11 rules it out
CellXMarginUnscaled(col) == MARGIN_X + Scale(col * Mm(CARD_W_MM))

\* const x = (MARGIN_X + col * CARD_W_MM) * s  (app.js:1091)
CellX(col) == Scale(MARGIN_X + col * Mm(CARD_W_MM))

\* const y = (MARGIN_Y + row * CARD_H_MM) * s  (app.js:1092)
CellY(row) == Scale(MARGIN_Y + row * Mm(CARD_H_MM))

Place(img, x, y, w, h) == [img |-> img, x |-> x, y |-> y, w |-> w, h |-> h]

\* A page canvas appended to dom.pageContainer, with its label
\* "Page p+1 of pageCount", the drawImage calls and the strokes made on it.
NewCanvas(p, pc) ==
    [label |-> <<p + 1, pc>>, imgs |-> <<>>, strokes |-> <<>>, dash |-> <<>>]

RemoveAt(seq, i) == [k \in 1..(Len(seq) - 1) |-> IF k < i THEN seq[k] ELSE seq[k + 1]]

\* A renderPreview call runs synchronously from a loop head of drawPage to
\* its next "await loadImage" (or to its end).  run.canvas is the position
\* of the run's canvas in dom.pageContainer, 0 once the container was
\* emptied under it.  imgs is allImages and pc is pageCount as they are
\* when the run resumes.  run.solo is history: no other renderPreview call
\* has started since this one did.
RECURSIVE DrawLoop(_, _, _, _)
DrawLoop(run, cont, imgs, pc) ==
    IF run.row < ROWS THEN
        IF run.col >= COLS THEN
            DrawLoop([run EXCEPT !.row = @ + 1, !.col = 0], cont, imgs, pc)
        ELSE IF CellIndex(run.p * CARDS_PER_PAGE, run.row, run.col) >= Len(imgs) THEN
            \* break out of the column loop
            DrawLoop([run EXCEPT !.row = @ + 1, !.col = 0], cont, imgs, pc)
        ELSE
            \* await loadImage(allImages[idx])
            [run  |-> [run EXCEPT !.src =
                          imgs[CellIndex(run.p * CARDS_PER_PAGE, run.row, run.col) + 1]],
             cont |-> cont, done |-> FALSE]
    ELSE
        LET cont1 ==
                IF run.settings.cutLines # "none" /\ run.drawn > 0 /\ run.canvas # 0
                THEN [cont EXCEPT
                        ![run.canvas].strokes = @ \o
                            drawCutLinesCanvas(Len(imgs), run.settings.cutLines,
                                               run.p * CARDS_PER_PAGE),
                        ![run.canvas].dash = CanvasDash(run.settings.cutStyle)]
                ELSE cont
            p1 == run.p + 1
        IN  IF p1 < pc THEN
                DrawLoop([run EXCEPT !.p = p1, !.row = 0, !.col = 0, !.drawn = 0,
                                     !.canvas = Len(cont1) + 1],
                         Append(cont1, NewCanvas(p1, pc)), imgs, pc)
            ELSE [run |-> run, cont |-> cont1, done |-> TRUE]

\* renderPreview() up to its first await: the new pageCount, the new
\* container and the suspended calls (app.js:1043-1072).
renderPreview(imgs, sett, runs) ==
    LET pc == PageCountOf(Len(imgs))
        detached == [i \in 1..Len(runs) |-> [runs[i] EXCEPT !.canvas = 0, !.solo = FALSE]]
    IN  IF 0 < pc THEN
            LET r == DrawLoop([settings |-> sett, p |-> 0, row |-> 0, col |-> 0,
                               drawn |-> 0, canvas |-> 1, src |-> Null,
                               solo |-> Len(runs) = 0],
                              <<NewCanvas(0, pc)>>, imgs, pc)
            IN  [pageCount |-> pc, cont |-> r.cont,
                 runs |-> IF r.done THEN detached ELSE Append(detached, r.run)]
        ELSE [pageCount |-> pc, cont |-> <<>>, runs |-> detached]

----------------------------------------------------------------------------
(* Export: generatePDF (app.js:1169-1198) *)

\* const pages = Math.ceil(allImages.length / CARDS_PER_PAGE)  (app.js:1175)
PdfPageCount(n) == CeilDiv(n, CARDS_PER_PAGE)

\* const row = Math.floor(i / COLS)  (app.js:1184)
PdfRow(i) == FloorDiv(i, COLS)

\* const col = i % COLS  (app.js:1185)
PdfCol(i) == i % COLS

\* The pages of the document built by generatePDF for the image list imgs:
\* the addImage calls and the doc.line calls of each page, in call order.
generatePDF(imgs, sett) ==
    [k \in 1..PdfPageCount(Len(imgs)) |->
        LET p == k - 1
            startIdx == p * CARDS_PER_PAGE
            \* the loop over i stops at the first idx >= allImages.length
            cnt == Min(CARDS_PER_PAGE, Len(imgs) - startIdx)
        IN  [imgs |-> [j \in 1..cnt |->
                        LET i == j - 1
                        IN  Place(imgs[startIdx + i + 1],
                                  MARGIN_X + PdfCol(i) * Mm(CARD_W_MM),
                                  MARGIN_Y + PdfRow(i) * Mm(CARD_H_MM),
                                  Mm(CARD_W_MM), Mm(CARD_H_MM))],
             strokes |-> IF sett.cutLines # "none"
                         THEN drawCutLinesPDF(Len(imgs), sett.cutLines, startIdx)
                         ELSE <<>>,
             dash |-> IF sett.cutLines # "none" THEN PdfDash(sett.cutStyle) ELSE <<>>]]

----------------------------------------------------------------------------
(* Messages of the error log *)

\* a fallback that logs nothing about the set; C3 as amended rules it out
FallbackSilent(name, set, used) == [kind |-> "none", name |-> name]

\* `"${entry.name}" not found in set [${entry.set}], using ${selected.s.toUpperCase()}`
FallbackMsg(name, set, used) ==
    [kind |-> "setFallback", name |-> name, set |-> set, used |-> toUpperCase(used)]

\* `Card not found: "${name}"${set ? ` [${set}]` : ''}`  (app.js:689 and 783)
NotFoundMsg(name, set) == [kind |-> "notFound", name |-> name, set |-> set]

\* body.details of a failed remote lookup, or the message of a rejected fetch
ServiceMsg(text) == [kind |-> "service", text |-> text]

\* `${slot.name}: ${err.message}` with err from getImageData (app.js:706, 1023)
ImageMsg(name, url) == [kind |-> "imageFailed", name |-> name, url |-> url]

NoEntriesMsg == [kind |-> "noEntries"]    \* 'No valid card entries found.'
\* no message at all; C17 rules it out
NoMessage == [kind |-> "none"]

NoCardsMsg   == [kind |-> "noCards"]      \* 'No valid cards to preview.'
NoImagesMsg  == [kind |-> "noImages"]     \* 'No images could be loaded.'

----------------------------------------------------------------------------
(* Stage 1: loadCards (app.js:735-805) *)

\* if (!selected && cardDBReady && entry.set)  (app.js:756)
TriesNameOnly(selected, set) == selected = Null /\ cardDBReady /\ set # <<>>

\* a remote lookup for every entry the index does not resolve; C1 as
\* amended rules it out
NeedsRemoteAlways(selected) == selected = Null

\* if (!selected && !cardDBReady)  (app.js:763)
NeedsRemote(selected) == selected = Null /\ ~cardDBReady

\* a local miss that is not reported on the slot; C27 rules it out
LocalNotFoundSilent(selected) == FALSE

\* if (!selected && cardDBReady)  (app.js:782)
LocalNotFound(selected) == selected = Null /\ cardDBReady

\* the record synthesized from the response of the remote lookup (app.js:768-775)
SynthCard(apiCard) ==
    [n |-> apiCard.name, id |-> apiCard.id, s |-> apiCard.set,
     cn |-> apiCard.collector_number, o |-> apiCard.oracle_id,
     d |-> apiCard.faces_with_images]

\* app.js:787-791
VariantsFor(selected) ==
    IF selected = Null THEN <<>>
    ELSE IF Len(getVariants(selected.o)) = 0 THEN <<selected>>
    ELSE getVariants(selected.o)

\* app.js:793-800
NewSlot(entry, selected, error) ==
    [name     |-> entry.name,
     qty      |-> entry.qty,
     oracleId |-> IF selected # Null THEN selected.o ELSE "",
     selected |-> selected,
     variants |-> VariantsFor(selected),
     error    |-> error]

\* The end of one iteration of the loop over the entries, from line 782 on:
\* st holds the slots and the log as the call sees them, how is the history
\* of the path taken.
FinishEntry(st, selected, error, how) ==
    LET entry == st.entries[st.i]
        err   == IF LocalNotFound(selected) THEN NotFoundMsg(entry.name, <<>>) ELSE error
        log   == IF LocalNotFound(selected) THEN Append(st.log, err) ELSE st.log
    IN  [st EXCEPT
            !.slots = Append(@, NewSlot(entry, selected, err)),
            !.log   = log,
            !.prov  = Append(@, [entry |-> entry,
                                 how   |-> IF LocalNotFound(selected) THEN "localFail" ELSE how,
                                 stale |-> ~st.latest]),
            !.i     = @ + 1]

\* loadCards runs synchronously from the head of its loop to its next await
\* (state "sleep": at await sleep(80)) or to the end of the loop ("done").
RECURSIVE LoadLoop(_)
LoadLoop(st) ==
    IF st.i > Len(st.entries) THEN [st EXCEPT !.state = "done"]
    ELSE LET entry == st.entries[st.i]
             sel1  == lookupCard(entry.name, entry.set)
             retry == TriesNameOnly(sel1, entry.set)
             sel2  == IF retry THEN lookupCard(entry.name, <<>>) ELSE sel1
             log1  == IF retry /\ sel2 # Null
                      THEN Append(st.log, FallbackMsg(entry.name, entry.set, sel2.s))
                      ELSE st.log
             how   == IF retry /\ sel2 # Null THEN "fallback" ELSE "direct"
         IN  IF NeedsRemote(sel2)
             THEN [st EXCEPT !.state = "sleep", !.log = log1]
             ELSE LoadLoop(FinishEntry([st EXCEPT !.log = log1], sel2, Null, how))

\* renderCardList: one row per slot; a row has a thumbnail (and the click
\* listeners that open the popover) when its slot has a selected record.
renderCardList(slots) == [i \in 1..Len(slots) |-> slots[i].selected # Null]

RECURSIVE SumSlots(_, _, _)
\* cardSlots.reduce over the slots from i on; faces tells whether a
\* double-faced record counts twice
SumSlots(slots, faces, i) ==
    IF i > Len(slots) THEN 0
    ELSE IF slots[i].selected = Null THEN SumSlots(slots, faces, i + 1)
    ELSE slots[i].qty * (IF faces /\ slots[i].selected.d THEN 2 ELSE 1)
         + SumSlots(slots, faces, i + 1)

\* the statistics renderCardList writes to dom.cardListStats (app.js:816-828)
renderStats(slots) ==
    [cards |-> SumSlots(slots, FALSE, 1),
     faces |-> SumSlots(slots, TRUE, 1),
     pages |-> (SumSlots(slots, TRUE, 1) + 8) \div 9]

----------------------------------------------------------------------------
(* Stage 2: generatePreview (app.js:984-1040) *)

\* buildImageUrl (app.js:592-595)
buildImageUrl(id, quality, face) ==
    [quality |-> quality, face |-> face, id |-> id,
     ext |-> IF quality = "png" THEN "png" ELSE "jpg"]

\* getImageUrlsForCard (app.js:711-720)
getImageUrlsForCard(card, quality) ==
    IF card.d
    THEN <<buildImageUrl(card.id, quality, "front"), buildImageUrl(card.id, quality, "back")>>
    ELSE <<buildImageUrl(card.id, quality, "front")>>

\* what getImageData resolves to for a url whose image loads: the encoded
\* pixels of that image (app.js:695-709)
getImageData(url) == [data |-> url]

\* one copy of each face whatever the quantity; C30 rules it out
ExpandOnce(faceDataList, qty) == faceDataList

\* all copies of the first face, then all copies of the next; C6 rules it out
ExpandFaceByFace(faceDataList, qty) ==
    Flatten([f \in 1..Len(faceDataList) |-> [i \in 1..qty |-> faceDataList[f]]])

\* for (i < slot.qty) for (data of faceDataList) allImages.push(data)  (app.js:1015-1018)
ExpandCopies(faceDataList, qty) == Flatten([i \in 1..qty |-> faceDataList])

\* const validSlots = cardSlots.filter(s => s.selected): the slot objects of
\* validSlots are those of cardSlots; ref is the position of the object in
\* cardSlots, 0 once cardSlots was replaced by another array.
RECURSIVE ValidSlots(_, _)
ValidSlots(slots, i) ==
    IF i > Len(slots) THEN <<>>
    ELSE IF slots[i].selected # Null
         THEN <<[ref |-> i, name |-> slots[i].name, qty |-> slots[i].qty,
                 selected |-> slots[i].selected]>> \o ValidSlots(slots, i + 1)
         ELSE ValidSlots(slots, i + 1)

\* the head of the loop over validSlots: the call suspends at the first
\* getImageData of the next slot, or leaves the loop.  run.card is history:
\* the record the urls were built from.
GenNext(run) ==
    IF run.k > Len(run.vs) THEN [run EXCEPT !.state = "done"]
    ELSE [run EXCEPT !.state = "fetch", !.f = 1, !.faceData = <<>>,
                     !.card = run.vs[run.k].selected,
                     !.urls = getImageUrlsForCard(run.vs[run.k].selected, run.quality)]

\* slot objects no longer reachable from cardSlots
Detach(runs) ==
    [i \in 1..Len(runs) |->
        [runs[i] EXCEPT !.vs = [j \in 1..Len(@) |-> [@[j] EXCEPT !.ref = 0]]]]

\* history: another generatePreview call or clearAll has reset allImages
Unclean(runs) == [i \in 1..Len(runs) |-> [runs[i] EXCEPT !.clean = FALSE]]

\* slot.selected = variant on the slot object at position idx of cardSlots
Reselect(runs, idx, variant) ==
    [i \in 1..Len(runs) |->
        [runs[i] EXCEPT !.vs = [j \in 1..Len(@) |->
            IF @[j].ref = idx THEN [@[j] EXCEPT !.selected = variant] ELSE @[j]]]]

----------------------------------------------------------------------------
(* Bounds and inputs *)

MaxLoadRuns   == 1    \* loadCards calls suspended at the same time
MaxGenRuns    == 2    \* generatePreview calls suspended at the same time
MaxRenderRuns == 2    \* renderPreview calls suspended at the same time
MaxSuspended  == 2    \* suspended calls of all three kinds together
MaxClicks     == 3    \* user actions in one session
MaxImages     == 28   \* longest image list of the layout specification
MaxReloadRuns == 2    \* loadCards calls suspended at the same time in SpecReload
MaxBatchImages == 2   \* images of the preview from which SpecBatch starts

Card(n, id, s, o, d) == [n |-> n, id |-> id, s |-> s, cn |-> id, o |-> o, d |-> d]

\* data/cards.json as written by scripts/sync-cards.js: two printings of one
\* card and a double-faced card
Dataset ==
    << Card(<<"A", "b">>, "i1", <<"x">>, "o1", FALSE),
       Card(<<"A", "b">>, "i2", <<"y">>, "o1", FALSE),
       Card(<<"B">>,      "i3", <<"x">>, "o2", TRUE) >>

\* the same file with a record that has no name
BadDataset == [Dataset EXCEPT ![2].n = UNDEF]

\* how loadCardDB ends: the fetch or the parse fails, or the records arrive
DbOutcomes ==
    { [kind |-> "fail", cards |-> <<>>],
      [kind |-> "ok", cards |-> Dataset],
      [kind |-> "ok", cards |-> BadDataset] }

\* contents of the card list textarea, line by line
Texts ==
    { << <<"A", "b">> >>,
      << <<"2", " ", "B">> >>,
      << <<"a", "b", " ", "[", "z", "]">>, <<"A", "b", "[", "Y", "]">> >>,
      << <<"z", "z">>, <<"2", " ", "B">> >>,
      << <<" ">> >>,
      << <<"[", "x", "]">> >>,
      << <<"1", "2", " ", "B">> >> }

\* answers of the remote lookup: a single-faced card, a card with per-face
\* images, a failure with the service's message, a failure without one
ApiCards ==
    { [name |-> <<"A", "b">>, id |-> "r1", set |-> <<"x">>, collector_number |-> "r1",
       oracle_id |-> "o1", faces_with_images |-> FALSE],
      [name |-> <<"B">>, id |-> "r2", set |-> <<"y">>, collector_number |-> "r2",
       oracle_id |-> "o9", faces_with_images |-> TRUE] }

ApiResponses ==
    { [ok |-> TRUE, card |-> c, details |-> <<>>] : c \in ApiCards }
    \cup { [ok |-> FALSE, card |-> Null, details |-> <<"n", "o">>],
           [ok |-> FALSE, card |-> Null, details |-> <<>>] }

Qualities == {"png", "large"}

AllSettings ==
    [cutLines : {"none", "corners", "grid"}, cutStyle : {"solid", "dashed"}]

\* values of the cutWidth control, in quarter millimetres: 0.5 mm and 1 mm
CutWidths == {Mm(1) \div 2, Mm(1)}

vars == << clicks, cardDB, oracleIndex, cardDBReady, dbPhase, lookupArgs, lookupRes,
           parseArg, parseRes, listStats, resolved, cleared,
           allImages, pageCount, currentView, settings, btnDownloadDisabled,
           pageContainer, renderRuns, btnLoadCardsDisabled,
           btnGenerateDisabled, cardSlots, errorLog, openPopoverIdx, popover,
           listRows, loadRuns, genRuns, docListening, rafPending, prov, lastEvent >>

dbVars     == << cardDB, oracleIndex, cardDBReady, dbPhase, btnLoadCardsDisabled >>
lookupVars == << lookupArgs, lookupRes >>
parseVars  == << parseArg, parseRes >>
histVars   == << resolved, cleared >>
renderVars == << pageCount, pageContainer, renderRuns >>
popVars    == << openPopoverIdx, popover, docListening, rafPending >>

----------------------------------------------------------------------------
(* Initial state: init() has run and loadCardDB waits for data/cards.json *)

Init ==
    /\ cardDB = NoMap
    /\ oracleIndex = NoMap
    /\ cardDBReady = FALSE
    /\ dbPhase = "fetching"
    /\ btnLoadCardsDisabled = TRUE
    /\ btnGenerateDisabled = FALSE
    /\ btnDownloadDisabled = TRUE
    /\ currentView = "empty"
    /\ cardSlots = <<>>
    /\ allImages = <<>>
    /\ pageCount = 0
    /\ errorLog = <<>>
    /\ openPopoverIdx = -1
    /\ popover = Null
    /\ docListening = FALSE
    /\ rafPending = FALSE
    /\ listRows = <<>>
    /\ loadRuns = <<>>
    /\ genRuns = <<>>
    /\ renderRuns = <<>>
    /\ pageContainer = <<>>
    /\ settings = [cutLines |-> "grid", cutStyle |-> "solid"]
    /\ prov = <<>>
    /\ lastEvent = [op |-> "init"]
    /\ lookupArgs = Null
    /\ parseArg = Null
    /\ parseRes = Null
    /\ listStats = Null
    /\ resolved = Null
    /\ cleared = FALSE
    /\ clicks = 0
    /\ lookupRes = Null

----------------------------------------------------------------------------
(* The popover's document listeners: a click outside the popover reaches   *)
(* handleOutsideClick after the clicked control's own handler has run      *)
(* (app.js:961-966); pop is the popover element left by that handler.      *)

ClosesOnClick(pop) == docListening /\ pop # Null

DocClick(pop, idx) ==
    /\ popover' = IF ClosesOnClick(pop) THEN Null ELSE pop
    /\ openPopoverIdx' = IF ClosesOnClick(pop) THEN -1 ELSE idx
    /\ docListening' = IF ClosesOnClick(pop) THEN FALSE ELSE docListening
    /\ UNCHANGED rafPending

Other == [op |-> "other"]

\* a user action, counted
Click == clicks < MaxClicks /\ clicks' = clicks + 1

\* the calls suspended at an await
Suspended == Len(loadRuns) + Len(genRuns) + Len(renderRuns)

----------------------------------------------------------------------------
(* loadCardDB (app.js:598-644) *)

LoadCardDBDone(outcome) ==
    /\ UNCHANGED clicks
    /\ dbPhase = "fetching"
    /\ dbPhase' = "done"
    /\ LET b == BuildIndex(outcome.cards)
       IN  IF outcome.kind = "ok"
           THEN /\ cardDB' = b.db
                /\ oracleIndex' = b.oi
                /\ cardDBReady' = ~b.threw
           ELSE UNCHANGED << cardDB, oracleIndex, cardDBReady >>
    /\ btnLoadCardsDisabled' = FALSE
    /\ lastEvent' = [op |-> "loadCardDB", kind |-> outcome.kind, cards |-> outcome.cards]
    /\ UNCHANGED << lookupVars, parseVars, histVars, allImages, currentView, settings, btnDownloadDisabled,
                    renderVars, btnGenerateDisabled, cardSlots, errorLog,
                    popVars, listRows, listStats, loadRuns, genRuns, prov >>

----------------------------------------------------------------------------
(* loadCards: the click, the end of sleep(80), the answer of the lookup *)

\* a showView that leaves the Download PDF button as it is; C26 rules it out
showViewKeeps(view, disabled) == disabled

\* dom.btnDownload.disabled after showView(view) (app.js:1256-1285): the
\* views 'empty' and 'cards' disable the button, 'preview' leaves it
showView(view, disabled) == IF view = "preview" THEN disabled ELSE TRUE

\* the other calls, once a new call has replaced cardSlots
Superseded(runs) ==
    [i \in 1..Len(runs) |-> [runs[i] EXCEPT !.latest = FALSE, !.solo = FALSE]]

\* history: no remote lookup is in flight in a call other than call r
Quiet(r) == \A j \in 1..Len(loadRuns) : j # r => loadRuns[j].state # "fetch"

\* loadCards, from the click to its first await or to its end.  run.paced is
\* history: since the call began its present sleep(80), no remote lookup
\* of the session has been in flight.
loadCards(text) ==
    /\ Click
    /\ ~btnLoadCardsDisabled
    /\ Suspended < MaxSuspended
    /\ LET entries == parseInput(text)
           runs    == ~BlankText(text) /\ Len(entries) > 0
           st      == LoadLoop([entries |-> entries, i |-> 1, slots |-> <<>>,
                                log |-> <<>>, prov |-> <<>>, latest |-> TRUE,
                                state |-> "run"])
           done    == runs /\ st.state = "done"
       IN  /\ cardSlots' = IF runs THEN st.slots ELSE cardSlots
           /\ prov' = IF runs THEN st.prov ELSE prov
           /\ errorLog' = IF runs THEN st.log
                          ELSE IF BlankText(text) THEN errorLog
                          ELSE <<NoEntriesMsg>>
           /\ genRuns' = IF runs THEN Detach(genRuns) ELSE genRuns
           /\ loadRuns' = IF ~runs THEN loadRuns
                          ELSE IF done THEN Superseded(loadRuns)
                          ELSE Append(Superseded(loadRuns),
                                      [entries |-> entries, i |-> st.i, state |-> "sleep",
                                       latest |-> TRUE, solo |-> Len(loadRuns) = 0,
                                       cleared |-> FALSE, paced |-> Quiet(0)])
           /\ currentView' = IF done THEN "cards" ELSE currentView
           /\ btnDownloadDisabled' = IF done THEN showView("cards", btnDownloadDisabled)
                                     ELSE btnDownloadDisabled
           /\ listRows' = IF done THEN renderCardList(st.slots) ELSE listRows
           /\ listStats' = IF done THEN renderStats(st.slots) ELSE listStats
           /\ DocClick(IF done THEN Null ELSE popover, openPopoverIdx)
           /\ lastEvent' = IF done
                           THEN [op |-> "loadDone", entries |-> entries,
                                 solo |-> Len(loadRuns) = 0, cleared |-> FALSE,
                                 latest |-> TRUE, before |-> cardSlots,
                                 earlier |-> resolved]
                           ELSE Other
           /\ resolved' = IF done /\ cardDBReady
                          THEN [entries |-> entries, slots |-> st.slots]
                          ELSE resolved
    /\ cleared' = FALSE
    /\ UNCHANGED << dbVars, lookupVars, parseVars, allImages, settings, renderVars,
                    btnGenerateDisabled >>

\* a click on Load Cards (app.js:1362) while fewer than MaxLoadRuns calls of
\* loadCards are suspended
LoadCardsClick(text) == Len(loadRuns) < MaxLoadRuns /\ loadCards(text)

\* the same click while fewer than MaxReloadRuns calls are suspended
LoadCardsAgain(text) == Len(loadRuns) < MaxReloadRuns /\ loadCards(text)

LoadCardsWake(r) ==
    /\ UNCHANGED clicks
    /\ r \in 1..Len(loadRuns)
    /\ loadRuns[r].state = "sleep"
    /\ loadRuns' = [j \in 1..Len(loadRuns) |->
                        IF j = r THEN [loadRuns[j] EXCEPT !.state = "fetch"]
                        ELSE [loadRuns[j] EXCEPT !.paced = FALSE]]
    /\ lastEvent' = [op |-> "lookup", paced |-> loadRuns[r].paced]
    /\ UNCHANGED << dbVars, lookupVars, parseVars, histVars, allImages, currentView, settings,
                    btnDownloadDisabled, renderVars, btnGenerateDisabled,
                    cardSlots, errorLog, popVars, listRows, listStats, genRuns, prov >>

LoadCardsResponse(r, resp) ==
    /\ UNCHANGED clicks
    /\ r \in 1..Len(loadRuns)
    /\ loadRuns[r].state = "fetch"
    /\ LET run   == loadRuns[r]
           entry == run.entries[run.i]
           sel   == IF resp.ok THEN SynthCard(resp.card) ELSE Null
           err   == IF resp.ok THEN Null
                    ELSE IF resp.details # <<>> THEN ServiceMsg(resp.details)
                    ELSE NotFoundMsg(entry.name, entry.set)
           st0   == [entries |-> run.entries, i |-> run.i, slots |-> cardSlots,
                     log |-> IF resp.ok THEN errorLog ELSE Append(errorLog, err),
                     prov |-> prov, latest |-> run.latest, state |-> "run"]
           st    == LoadLoop(FinishEntry(st0, sel, err,
                                         IF resp.ok THEN "remote" ELSE "remoteFail"))
           done  == st.state = "done"
       IN  /\ cardSlots' = st.slots
           /\ prov' = st.prov
           /\ errorLog' = st.log
           /\ loadRuns' = IF done THEN RemoveAt(loadRuns, r)
                          ELSE [loadRuns EXCEPT ![r].i = st.i, ![r].state = "sleep",
                                                ![r].paced = Quiet(r)]
           /\ currentView' = IF done THEN "cards" ELSE currentView
           /\ btnDownloadDisabled' = IF done THEN showView("cards", btnDownloadDisabled)
                                     ELSE btnDownloadDisabled
           /\ listRows' = IF done THEN renderCardList(st.slots) ELSE listRows
           /\ listStats' = IF done THEN renderStats(st.slots) ELSE listStats
           /\ popover' = IF done THEN Null ELSE popover
           /\ lastEvent' = IF done
                           THEN [op |-> "loadDone", entries |-> run.entries,
                                 solo |-> run.solo, cleared |-> run.cleared,
                                 latest |-> run.latest, before |-> cardSlots,
                                 earlier |-> Null]
                           ELSE Other
    /\ UNCHANGED << dbVars, lookupVars, parseVars, histVars, allImages, settings, renderVars,
                    btnGenerateDisabled, openPopoverIdx, docListening, rafPending,
                    genRuns >>

----------------------------------------------------------------------------
(* The card list: thumbnails, the variant popover, selectVariant *)

\* a click on a thumbnail or on its "n arts" button (app.js:869-879, 892-951);
\* the handler stops the propagation of the click
ThumbClick(idx) ==
    /\ Click
    /\ currentView = "cards"
    /\ idx \in 1..Len(listRows)
    /\ listRows[idx]
    /\ LET opens == /\ openPopoverIdx # idx
                    /\ idx <= Len(cardSlots)
                    /\ Len(cardSlots[idx].variants) > 1
       IN  /\ openPopoverIdx' = IF opens THEN idx ELSE -1
           /\ popover' = IF opens /\ cardSlots[idx].selected # Null
                         THEN [idx |-> idx, variants |-> cardSlots[idx].variants]
                         ELSE Null
           /\ docListening' = FALSE
           /\ rafPending' = (rafPending \/ (opens /\ cardSlots[idx].selected # Null))
    /\ lastEvent' = Other
    /\ UNCHANGED << dbVars, lookupVars, parseVars, histVars, allImages, currentView, settings,
                    btnDownloadDisabled, renderVars, btnGenerateDisabled,
                    cardSlots, errorLog, listRows, listStats, loadRuns, genRuns, prov >>

\* the requestAnimationFrame callback of openVariantPopover (app.js:947-950)
PopoverArmed ==
    /\ UNCHANGED clicks
    /\ rafPending
    /\ rafPending' = FALSE
    /\ docListening' = TRUE
    /\ lastEvent' = Other
    /\ UNCHANGED << dbVars, lookupVars, parseVars, histVars, allImages, currentView, settings,
                    btnDownloadDisabled, renderVars, btnGenerateDisabled,
                    cardSlots, errorLog, listRows, listStats, loadRuns, genRuns, prov,
                    openPopoverIdx, popover >>

\* closePopover by the close button of a visible popover, by the Escape key
\* or by a click on the page outside the popover (app.js:953-970)
PopoverClose ==
    /\ Click
    /\ \/ popover # Null /\ currentView = "cards"
       \/ docListening
    /\ popover' = Null
    /\ openPopoverIdx' = -1
    /\ docListening' = FALSE
    /\ lastEvent' = Other
    /\ UNCHANGED << dbVars, lookupVars, parseVars, histVars, allImages, currentView, settings,
                    btnDownloadDisabled, renderVars, btnGenerateDisabled,
                    cardSlots, errorLog, listRows, listStats, loadRuns, genRuns, prov, rafPending >>

\* a selection that also rebuilds the variants list of the slot; C20 rules
\* it out
selectVariantRebuild(slots, slotIdx, variant) ==
    [slots EXCEPT ![slotIdx].selected = variant, ![slotIdx].oracleId = variant.o,
                  ![slotIdx].variants = <<variant>>]

\* selectVariant(slotIdx, variant) (app.js:972-978)
selectVariant(slots, slotIdx, variant) ==
    [slots EXCEPT ![slotIdx].selected = variant, ![slotIdx].oracleId = variant.o]

\* a click on option k of the visible popover; cardSlots[slotIdx] may be
\* undefined by now, and then the handler throws before it changes anything
OptionClick(k) ==
    /\ Click
    /\ popover # Null
    /\ currentView = "cards"
    /\ k \in 1..Len(popover.variants)
    /\ IF popover.idx <= Len(cardSlots)
       THEN /\ cardSlots' = selectVariant(cardSlots, popover.idx, popover.variants[k])
            /\ genRuns' = Reselect(genRuns, popover.idx, popover.variants[k])
            /\ popover' = Null
            /\ openPopoverIdx' = -1
            /\ docListening' = FALSE
            /\ listRows' = renderCardList(cardSlots')
            /\ listStats' = renderStats(cardSlots')
            /\ lastEvent' = [op |-> "selectVariant", idx |-> popover.idx,
                              variant |-> popover.variants[k]]
       ELSE /\ UNCHANGED << cardSlots, genRuns, popover, openPopoverIdx, docListening,
                            listRows, listStats >>
            /\ lastEvent' = Other
    /\ UNCHANGED << dbVars, lookupVars, parseVars, histVars, allImages, currentView, settings,
                    btnDownloadDisabled, renderVars, btnGenerateDisabled,
                    errorLog, loadRuns, prov, rafPending >>

----------------------------------------------------------------------------
(* generatePreview: the click and the end of each getImageData *)

GeneratePreviewClick(quality) ==
    /\ Click
    /\ currentView = "cards"
    /\ ~btnGenerateDisabled
    /\ Len(genRuns) < MaxGenRuns
    /\ Suspended < MaxSuspended
    /\ LET vs   == ValidSlots(cardSlots, 1)
           runs == Len(vs) > 0
       IN  /\ allImages' = IF runs THEN <<>> ELSE allImages
           /\ errorLog' = IF runs THEN <<>>
                          ELSE IF Len(cardSlots) = 0 THEN errorLog
                          ELSE <<NoCardsMsg>>
           /\ btnGenerateDisabled' = (runs \/ btnGenerateDisabled)
           /\ btnDownloadDisabled' = (runs \/ btnDownloadDisabled)
           /\ genRuns' = IF runs
                         THEN Append(Unclean(genRuns),
                                GenNext([vs |-> vs, k |-> 1, quality |-> quality,
                                         state |-> "run", f |-> 1, faceData |-> <<>>,
                                         urls |-> <<>>, card |-> Null, pushed |-> <<>>,
                                         tried |-> <<>>,
                                         clean |-> Len(genRuns) = 0]))
                         ELSE genRuns
           /\ lastEvent' = IF runs THEN [op |-> "generateStart"]
                           ELSE IF Len(cardSlots) > 0 THEN [op |-> "noValidCards"]
                           ELSE Other
    /\ DocClick(popover, openPopoverIdx)
    /\ UNCHANGED << dbVars, lookupVars, parseVars, histVars, currentView, settings, renderVars,
                    cardSlots, listRows, listStats, loadRuns, prov >>

\* getImageData of the awaited url resolves (ok) or rejects.  run.tried is
\* history: for each slot the loop has left, the record its urls were built
\* from and the face whose request failed (0 if none did).
GenImage(r, ok) ==
    /\ UNCHANGED clicks
    /\ r \in 1..Len(genRuns)
    /\ LET run  == genRuns[r]
           slot == run.vs[run.k]
           url  == run.urls[run.f]
           fd   == Append(run.faceData, getImageData(url))
           more == ok /\ run.f < Len(run.urls)
           imgs == IF ok /\ ~more THEN allImages \o ExpandCopies(fd, slot.qty)
                   ELSE allImages
           log  == IF ok THEN errorLog ELSE Append(errorLog, ImageMsg(slot.name, url))
           run1 == IF more THEN [run EXCEPT !.f = @ + 1, !.faceData = fd]
                   ELSE GenNext([run EXCEPT
                            !.k = @ + 1,
                            !.pushed = IF ok
                                       THEN Append(@, [k |-> run.k, card |-> run.card,
                                                       qty |-> slot.qty])
                                       ELSE @,
                            !.tried = Append(@, [k |-> run.k, card |-> run.card,
                                                 failed |-> IF ok THEN 0 ELSE run.f])])
           done == run1.state = "done"
           show == done /\ Len(imgs) > 0
           rp   == renderPreview(imgs, settings, renderRuns)
       IN  /\ show => Len(renderRuns) < MaxRenderRuns
           /\ allImages' = imgs
           /\ genRuns' = IF done THEN RemoveAt(genRuns, r) ELSE [genRuns EXCEPT ![r] = run1]
           /\ btnGenerateDisabled' = IF done THEN FALSE ELSE btnGenerateDisabled
           /\ errorLog' = IF done /\ ~show THEN <<NoImagesMsg>> ELSE log
           /\ currentView' = IF show THEN "preview" ELSE currentView
           /\ pageCount' = IF show THEN rp.pageCount ELSE pageCount
           /\ pageContainer' = IF show THEN rp.cont ELSE pageContainer
           /\ renderRuns' = IF show THEN rp.runs ELSE renderRuns
           /\ btnDownloadDisabled' = IF show THEN FALSE ELSE btnDownloadDisabled
           /\ lastEvent' = IF done
                           THEN [op |-> "genDone", pushed |-> run1.pushed,
                                 clean |-> run.clean, quality |-> run.quality,
                                 tried |-> run1.tried]
                           ELSE Other
    /\ UNCHANGED << dbVars, lookupVars, parseVars, histVars, settings, cardSlots, popVars,
                    listRows, listStats, loadRuns, prov >>

----------------------------------------------------------------------------
(* Back to Cards, Clear, the settings controls, Download PDF *)

\* the click listener of btnBackToCards (app.js:1366-1369); the button is
\* shown in the preview view only
BackToCardsClick ==
    /\ Click
    /\ currentView = "preview"
    /\ currentView' = "cards"
    /\ btnDownloadDisabled' = showView("cards", btnDownloadDisabled)
    /\ listRows' = renderCardList(cardSlots)
    /\ listStats' = renderStats(cardSlots)
    /\ popover' = Null
    /\ lastEvent' = [op |-> "backToCards"]
    /\ UNCHANGED << dbVars, lookupVars, parseVars, histVars, allImages, settings, renderVars,
                    btnGenerateDisabled, cardSlots, errorLog, openPopoverIdx,
                    docListening, rafPending, loadRuns, genRuns, prov >>

\* clearAll (app.js:1314-1324)
ClearClick ==
    /\ Click
    /\ allImages' = <<>>
    /\ cardSlots' = <<>>
    /\ prov' = <<>>
    /\ pageCount' = 0
    /\ errorLog' = <<>>
    /\ btnDownloadDisabled' = TRUE
    /\ btnGenerateDisabled' = FALSE
    /\ currentView' = "empty"
    /\ DocClick(popover, -1)
    /\ loadRuns' = [i \in 1..Len(loadRuns) |-> [loadRuns[i] EXCEPT !.cleared = TRUE]]
    /\ genRuns' = Unclean(Detach(genRuns))
    /\ lastEvent' = [op |-> "clear"]
    /\ cleared' = TRUE
    /\ UNCHANGED << dbVars, lookupVars, parseVars, resolved, settings, pageContainer, renderRuns,
                    listRows, listStats >>

\* one settings control changes (or cutWidth / cutColour, which the model
\* does not hold, so that s = settings) and onSettingsChange runs
\* (app.js:1326-1328, 1372-1381)
SettingsChange(s) ==
    /\ Click
    /\ s \in AllSettings
    /\ s.cutLines = settings.cutLines \/ s.cutStyle = settings.cutStyle
    /\ settings' = s
    /\ LET renders == currentView = "preview" /\ Len(allImages) > 0
           rp == renderPreview(allImages, s, renderRuns)
       IN  /\ renders => Len(renderRuns) < MaxRenderRuns /\ Suspended < MaxSuspended
           /\ pageCount' = IF renders THEN rp.pageCount ELSE pageCount
           /\ pageContainer' = IF renders THEN rp.cont ELSE pageContainer
           /\ renderRuns' = IF renders THEN rp.runs ELSE renderRuns
    /\ DocClick(popover, openPopoverIdx)
    /\ lastEvent' = Other
    /\ UNCHANGED << dbVars, lookupVars, parseVars, histVars, allImages, currentView, btnDownloadDisabled,
                    btnGenerateDisabled, cardSlots, errorLog, listRows, listStats,
                    loadRuns, genRuns, prov >>

\* loadImage of the awaited image resolves: drawPage draws it and goes on.
\* (The images of allImages are data URLs made by getImageData; they load.)
RenderImageLoaded(r) ==
    /\ UNCHANGED clicks
    /\ r \in 1..Len(renderRuns)
    /\ LET run   == renderRuns[r]
           cont1 == IF run.canvas # 0
                    THEN [pageContainer EXCEPT ![run.canvas].imgs =
                            Append(@, Place(run.src, CellX(run.col), CellY(run.row),
                                            Scale(Mm(CARD_W_MM)), Scale(Mm(CARD_H_MM))))]
                    ELSE pageContainer
           res   == DrawLoop([run EXCEPT !.drawn = @ + 1, !.col = @ + 1],
                             cont1, allImages, pageCount)
       IN  /\ pageContainer' = res.cont
           /\ renderRuns' = IF res.done THEN RemoveAt(renderRuns, r)
                            ELSE [renderRuns EXCEPT ![r] = res.run]
           /\ lastEvent' = IF res.done THEN [op |-> "renderDone", solo |-> run.solo]
                           ELSE Other
    /\ UNCHANGED << dbVars, lookupVars, parseVars, histVars, allImages, pageCount, currentView, settings,
                    btnDownloadDisabled, btnGenerateDisabled, cardSlots,
                    errorLog, popVars, listRows, listStats, loadRuns, genRuns, prov >>

\* the click listener of btnDownload: generatePDF
DownloadClick ==
    /\ Click
    /\ ~btnDownloadDisabled
    /\ DocClick(popover, openPopoverIdx)
    /\ lastEvent' = IF Len(allImages) = 0 THEN Other
                    ELSE [op |-> "generatePDF", images |-> allImages,
                          settings |-> settings,
                          pages |-> generatePDF(allImages, settings)]
    /\ UNCHANGED << dbVars, lookupVars, parseVars, histVars, allImages, currentView, settings,
                    btnDownloadDisabled, renderVars, btnGenerateDisabled, cardSlots,
                    errorLog, listRows, listStats, loadRuns, genRuns, prov >>

----------------------------------------------------------------------------
(* The application *)

Next ==
    \/ \E o \in DbOutcomes : LoadCardDBDone(o)
    \/ \E t \in Texts : LoadCardsClick(t)
    \/ \E r \in 1..MaxLoadRuns : LoadCardsWake(r)
    \/ \E r \in 1..MaxLoadRuns, resp \in ApiResponses : LoadCardsResponse(r, resp)
    \/ \E i \in 1..2 : ThumbClick(i)
    \/ PopoverArmed
    \/ PopoverClose
    \/ \E k \in 1..2 : OptionClick(k)
    \/ \E q \in Qualities : GeneratePreviewClick(q)
    \/ \E r \in 1..MaxGenRuns, ok \in BOOLEAN : GenImage(r, ok)
    \/ BackToCardsClick
    \/ ClearClick
    \/ \E s \in AllSettings : SettingsChange(s)
    \/ \E r \in 1..MaxRenderRuns : RenderImageLoaded(r)
    \/ DownloadClick

Spec == Init /\ [][Next]_vars

----------------------------------------------------------------------------
(* Load Cards clicked again while loadCards is suspended: the card database *)
(* and up to MaxReloadRuns overlapping calls of loadCards                   *)

\* a list of one line and a list of two lines
ReloadTexts ==
    { << <<"A", "b">> >>,
      << <<"z", "z">>, <<"2", " ", "B">> >> }

NextReload ==
    \/ \E o \in DbOutcomes : LoadCardDBDone(o)
    \/ \E t \in ReloadTexts : LoadCardsAgain(t)
    \/ \E r \in 1..MaxReloadRuns : LoadCardsWake(r)
    \/ \E r \in 1..MaxReloadRuns, resp \in ApiResponses : LoadCardsResponse(r, resp)

SpecReload == Init /\ [][NextReload]_vars

----------------------------------------------------------------------------
(* lookupCard on its own: any dataset of up to MaxRecords records, among   *)
(* them records whose set code is stored in upper case, and any request    *)

MaxRecords == 2

LookupRecords ==
    { Card(<<"A", "b">>, "i1", <<"x">>, "o1", FALSE),
      Card(<<"A", "b">>, "i2", <<"X">>, "o1", FALSE),
      Card(<<"A", "b">>, "i3", <<"y">>, "o1", FALSE),
      Card(<<"B">>,      "i4", <<"x">>, "o2", TRUE),
      Card(<<"a", "B">>, "i5", <<"x">>, "o1", FALSE),
      Card(<<"B">>,      "i6", <<"y">>, "",   TRUE) }

LookupDatasets ==
    { d \in UNION { [1..n -> LookupRecords] : n \in 1..MaxRecords } :
        \A i, j \in DOMAIN d : i # j => d[i] # d[j] }

LookupDbOutcomes ==
    { [kind |-> "fail", cards |-> <<>>] }
    \cup { [kind |-> "ok", cards |-> d] : d \in LookupDatasets }

LookupNames == { <<"A", "b">>, <<"a", "B">>, <<"B">>, <<"z", "z">> }
LookupSets  == { <<>>, <<"x">>, <<"X">>, <<"Y">>, <<"z">> }

\* a call lookupCard(name, set) and its result; loadCards, the caller, runs
\* once loadCardDB has enabled its button
Lookup(name, set) ==
    /\ ~btnLoadCardsDisabled
    /\ lookupArgs' = [name |-> name, set |-> set]
    /\ lookupRes' = lookupCard(name, set)
    /\ UNCHANGED << clicks, dbVars, parseVars, histVars, allImages, currentView, settings, btnDownloadDisabled,
                    renderVars, btnGenerateDisabled, cardSlots, errorLog, popVars,
                    listRows, listStats, loadRuns, genRuns, prov, lastEvent >>

NextLookup ==
    \/ \E o \in LookupDbOutcomes : LoadCardDBDone(o)
    \/ \E n \in LookupNames, st \in LookupSets : Lookup(n, st)

SpecLookup == Init /\ [][NextLookup]_vars

----------------------------------------------------------------------------
(* parseInput on its own: one line "<qty> <name> [<SET>]" built from its   *)
(* parts, each part optional where the input format allows it              *)

MaxPad == 2

\* the leading integer as typed and its value; the first is the omitted one
ParseQtys ==
    { [text |-> <<>>, value |-> 1],
      [text |-> <<"0">>, value |-> 0],
      [text |-> <<"1">>, value |-> 1],
      [text |-> <<"2">>, value |-> 2],
      [text |-> <<"1", "2">>, value |-> 12],
      [text |-> <<"0", "3">>, value |-> 3] }

ParseNames ==
    { <<"A", "b">>, <<"A", " ", "b">>, <<"B">>, <<"3", "b">>, <<"b", "2">> }

\* the set code as typed and in upper case; the first is the omitted one
ParseSets ==
    { [text |-> <<>>, upper |-> <<>>],
      [text |-> <<"x">>, upper |-> <<"X">>],
      [text |-> <<"X", "1">>, upper |-> <<"X", "1">>],
      [text |-> <<"2", "x", "y">>, upper |-> <<"2", "X", "Y">>] }

Pad(k) == [i \in 1..k |-> " "]

\* the line typed for the parts, k spaces between them
MakeLine(q, n, st, k) ==
    (IF q.text = <<>> THEN <<>> ELSE q.text \o Pad(k))
    \o n
    \o (IF st.text = <<>> THEN <<>> ELSE Pad(k) \o <<"[">> \o st.text \o <<"]">>)

\* a call parseInput(line) for a text of one line, and its result
Parse(q, n, st, k) ==
    /\ parseArg' = [qty |-> q, name |-> n, set |-> st, line |-> MakeLine(q, n, st, k)]
    /\ parseRes' = parseInput(<< MakeLine(q, n, st, k) >>)
    /\ UNCHANGED << clicks, dbVars, lookupVars, histVars, allImages, currentView,
                    settings, btnDownloadDisabled, renderVars, btnGenerateDisabled,
                    cardSlots, errorLog, popVars, listRows, listStats, loadRuns,
                    genRuns, prov, lastEvent >>

NextParse ==
    \E q \in ParseQtys, n \in ParseNames, st \in ParseSets, k \in 1..MaxPad :
        Parse(q, n, st, k)

SpecParse == Init /\ [][NextParse]_vars

----------------------------------------------------------------------------
(* The preview of a list of n images: the state in which generatePreview   *)
(* leaves the program, in remote-only mode, for n lines that each name one *)
(* single-faced card.  From there the image loads of renderPreview,        *)
(* Download PDF at any time and the settings controls, operated when no    *)
(* renderPreview call is suspended.                                        *)

LayoutIds ==
    << "c01", "c02", "c03", "c04", "c05", "c06", "c07", "c08", "c09", "c10",
       "c11", "c12", "c13", "c14", "c15", "c16", "c17", "c18", "c19", "c20",
       "c21", "c22", "c23", "c24", "c25", "c26", "c27", "c28", "c29", "c30" >>

LayoutCard(i) ==
    SynthCard([name |-> <<"A", "b">>, id |-> LayoutIds[i], set |-> <<"x">>,
               collector_number |-> LayoutIds[i], oracle_id |-> "",
               faces_with_images |-> FALSE])

LayoutEntry == [qty |-> 1, name |-> <<"A", "b">>, set |-> <<>>]

LayoutSlots(n) ==
    [i \in 1..n |->
        [name |-> LayoutEntry.name, qty |-> LayoutEntry.qty, oracleId |-> "",
         selected |-> LayoutCard(i), variants |-> <<LayoutCard(i)>>, error |-> Null]]

LayoutImages(n) ==
    [i \in 1..n |-> getImageData(buildImageUrl(LayoutIds[i], "png", "front"))]

LayoutSettings == [cutLines |-> "grid", cutStyle |-> "solid"]

InitLayout ==
    \E n \in 1..MaxImages :
        /\ cardDB = NoMap
        /\ oracleIndex = NoMap
        /\ cardDBReady = FALSE
        /\ dbPhase = "done"
        /\ btnLoadCardsDisabled = FALSE
        /\ btnGenerateDisabled = FALSE
        /\ btnDownloadDisabled = FALSE
        /\ currentView = "preview"
        /\ cardSlots = LayoutSlots(n)
        /\ prov = [i \in 1..n |-> [entry |-> LayoutEntry, how |-> "remote", stale |-> FALSE]]
        /\ allImages = LayoutImages(n)
        /\ settings = LayoutSettings
        /\ LET rp == renderPreview(LayoutImages(n), LayoutSettings, <<>>)
           IN  /\ pageCount = rp.pageCount
               /\ pageContainer = rp.cont
               /\ renderRuns = rp.runs
        /\ errorLog = <<>>
        /\ openPopoverIdx = -1
        /\ popover = Null
        /\ docListening = FALSE
        /\ rafPending = FALSE
        /\ listRows = renderCardList(LayoutSlots(n))
        /\ listStats = renderStats(LayoutSlots(n))
        /\ loadRuns = <<>>
        /\ genRuns = <<>>
        /\ lastEvent = [op |-> "genDone",
                        pushed |-> [i \in 1..n |-> [k |-> i, card |-> LayoutCard(i), qty |-> 1]],
                        clean |-> TRUE, quality |-> "png",
                        tried |-> [i \in 1..n |-> [k |-> i, card |-> LayoutCard(i),
                                                    failed |-> 0]]]
        /\ lookupArgs = Null
        /\ parseArg = Null
        /\ parseRes = Null
        /\ resolved = Null
        /\ cleared = FALSE
        /\ lookupRes = Null
        /\ clicks = 0

\* a settings control changes while no renderPreview call is suspended
SettingsChangeIdle(s) == renderRuns = <<>> /\ SettingsChange(s)

NextLayout ==
    \/ \E s \in AllSettings : SettingsChangeIdle(s)
    \/ \E r \in 1..MaxRenderRuns : RenderImageLoaded(r)
    \/ DownloadClick

SpecLayout == InitLayout /\ [][NextLayout]_vars

----------------------------------------------------------------------------
(* A second batch: from the preview of up to MaxBatchImages images, Back to *)
(* Cards, Load Cards and Generate Preview again, in remote-only mode.       *)

InitBatch == InitLayout /\ Len(allImages) <= MaxBatchImages

NextBatch ==
    \/ \E r \in 1..MaxRenderRuns : RenderImageLoaded(r)
    \/ BackToCardsClick
    \/ \E t \in Texts : LoadCardsClick(t)
    \/ \E r \in 1..MaxLoadRuns : LoadCardsWake(r)
    \/ \E r \in 1..MaxLoadRuns, resp \in ApiResponses : LoadCardsResponse(r, resp)
    \/ \E q \in Qualities : GeneratePreviewClick(q)
    \/ \E r \in 1..MaxGenRuns, ok \in BOOLEAN : GenImage(r, ok)

SpecBatch == InitBatch /\ [][NextBatch]_vars

----------------------------------------------------------------------------
(* Settings changed during rendering: from the preview of a list of more   *)
(* than one page, the settings controls at any time, so that renderPreview *)
(* calls overlap.                                                          *)

MaxRerenderImages == 10

InitRerender ==
    /\ InitLayout
    /\ Len(allImages) > CARDS_PER_PAGE
    /\ Len(allImages) <= MaxRerenderImages

NextRerender ==
    \/ \E s \in AllSettings : SettingsChange(s)
    \/ \E r \in 1..MaxRenderRuns : RenderImageLoaded(r)

SpecRerender == InitRerender /\ [][NextRerender]_vars

----------------------------------------------------------------------------
(* A list resolved on the loaded index: the state in which the first Load  *)
(* Cards click leaves the program once data/cards.json has been indexed.   *)
(* From there the thumbnails and the popover, Generate Preview, Clear and  *)
(* further Load Cards clicks.                                              *)

InitResolve ==
    \E t \in Texts :
        /\ ~BlankText(t)
        /\ Len(parseInput(t)) > 0
        /\ cardDB = BuildIndex(Dataset).db
        /\ oracleIndex = BuildIndex(Dataset).oi
        /\ cardDBReady = TRUE
        /\ dbPhase = "done"
        /\ btnLoadCardsDisabled = FALSE
        /\ btnGenerateDisabled = FALSE
        /\ btnDownloadDisabled = TRUE
        /\ currentView = "cards"
        /\ allImages = <<>>
        /\ LET st == LoadLoop([entries |-> parseInput(t), i |-> 1, slots |-> <<>>,
                               log |-> <<>>, prov |-> <<>>, latest |-> TRUE,
                               state |-> "run"])
           IN  /\ cardSlots = st.slots
               /\ prov = st.prov
               /\ errorLog = st.log
               /\ listRows = renderCardList(st.slots)
               /\ listStats = renderStats(st.slots)
               /\ resolved = [entries |-> parseInput(t), slots |-> st.slots]
               /\ lastEvent = [op |-> "loadDone", entries |-> parseInput(t),
                               solo |-> TRUE, cleared |-> FALSE, latest |-> TRUE,
                               before |-> <<>>, earlier |-> Null]
        /\ pageCount = 0
        /\ openPopoverIdx = -1
        /\ popover = Null
        /\ docListening = FALSE
        /\ rafPending = FALSE
        /\ loadRuns = <<>>
        /\ genRuns = <<>>
        /\ renderRuns = <<>>
        /\ pageContainer = <<>>
        /\ settings = [cutLines |-> "grid", cutStyle |-> "solid"]
        /\ cleared = FALSE
        /\ lookupArgs = Null
        /\ lookupRes = Null
        /\ parseArg = Null
        /\ parseRes = Null
        /\ clicks = 0

NextResolve ==
    \/ \E t \in Texts : LoadCardsClick(t)
    \/ \E i \in 1..2 : ThumbClick(i)
    \/ PopoverArmed
    \/ \E k \in 1..2 : OptionClick(k)
    \/ \E q \in Qualities : GeneratePreviewClick(q)
    \/ \E r \in 1..MaxGenRuns, ok \in BOOLEAN : GenImage(r, ok)
    \/ ClearClick

SpecResolve == InitResolve /\ [][NextResolve]_vars

----------------------------------------------------------------------------
(* Properties of the page layout, checked under SpecLayout *)

\* the least c with per * c >= n
Ceil(n, per) == CHOOSE c \in 0..n : per * c >= n /\ per * (c - 1) < n

\* a renderPreview call has just drawn its last page and no other call
\* overlapped it
PreviewFinished == lastEvent.op = "renderDone" /\ lastEvent.solo

\* generatePDF has just built its document
PdfBuilt == lastEvent.op = "generatePDF"

\* pages is a list of pages, each with the list imgs of its placed images
Paginated(pages, n) ==
    /\ Len(pages) = Ceil(n, 9)
    /\ \A k \in 1..Len(pages) :
          /\ Len(pages[k].imgs) = IF k < Len(pages) THEN 9 ELSE n - 9 * (Len(pages) - 1)
          /\ Len(pages[k].imgs) \in 1..9

\* C7: for N >= 1 images renderPreview and generatePDF both use ceil(N/9)
\* pages; every page but the last holds 9 images, the last holds
\* N - 9*(pageCount-1), between 1 and 9, and no page is empty.
C7_Pagination ==
    /\ pageCount = Ceil(Len(allImages), 9)
    /\ PreviewFinished =>
          /\ Len(pageContainer) = pageCount
          /\ Paginated(pageContainer, Len(allImages))
          /\ \A k \in 1..Len(pageContainer) : pageContainer[k].label = <<k, pageCount>>
    /\ PdfBuilt => Paginated(lastEvent.pages, Len(allImages))

C7_Witness ==
    /\ PdfBuilt
    /\ Len(allImages) = 10
    /\ Len(lastEvent.pages) = 2
    /\ Len(lastEvent.pages[2].imgs) = 1
    /\ renderRuns = <<>>
    /\ Len(pageContainer) = 2
    /\ Len(pageContainer[1].imgs) = 9
    /\ Len(pageContainer[2].imgs) = 1

\* the rectangle of cell (row, col) in quarter millimetres, or in quarter
\* pixels of the preview when px
CellRect(row, col, px) ==
    LET x == (Mm(PAGE_W_MM) - 3 * Mm(CARD_W_MM)) \div 2 + col * Mm(CARD_W_MM)
        y == (Mm(PAGE_H_MM) - 3 * Mm(CARD_H_MM)) \div 2 + row * Mm(CARD_H_MM)
    IN  IF px THEN [x |-> Scale(x), y |-> Scale(y),
                    w |-> Scale(Mm(CARD_W_MM)), h |-> Scale(Mm(CARD_H_MM))]
        ELSE [x |-> x, y |-> y, w |-> Mm(CARD_W_MM), h |-> Mm(CARD_H_MM)]

\* the positions (page, place) at which img was drawn
Hits(pages, img) ==
    { h \in (1..Len(pages)) \X (1..9) :
        /\ h[2] <= Len(pages[h[1]].imgs)
        /\ pages[h[1]].imgs[h[2]].img = img }

RowMajor(pages, imgs, px) ==
    /\ \A p \in 0..(Len(imgs) \div 9), row \in 0..2, col \in 0..2 :
          LET idx == p * 9 + row * 3 + col
          IN  idx < Len(imgs) =>
                LET hits == Hits(pages, imgs[idx + 1])
                    r    == CellRect(row, col, px)
                IN  /\ Cardinality(hits) = 1
                    /\ \A h \in hits :
                          /\ h[1] = p + 1
                          /\ pages[h[1]].imgs[h[2]] =
                                Place(imgs[idx + 1], r.x, r.y, r.w, r.h)
    /\ \A k \in 1..Len(pages) : \A j \in 1..Len(pages[k].imgs) :
          \E i \in 1..Len(imgs) : pages[k].imgs[j].img = imgs[i]

\* C8: the image at index p*9 + row*3 + col is placed in cell (row, col) of
\* page p and nowhere else, by drawPage and by generatePDF; every image is
\* placed exactly once and nothing is placed beyond the end of the list.
C8_RowMajor ==
    /\ PreviewFinished => RowMajor(pageContainer, allImages, TRUE)
    /\ PdfBuilt => RowMajor(lastEvent.pages, allImages, FALSE)

C8_Witness ==
    /\ PreviewFinished
    /\ Len(allImages) = 14
    /\ Len(pageContainer) = 2
    /\ pageContainer[2].imgs[5].img = allImages[14]
    /\ pageContainer[2].imgs[5].x = CellRect(1, 1, TRUE).x
    /\ pageContainer[2].imgs[5].y = CellRect(1, 1, TRUE).y

\* the number of cards on page k (from 1) of a list of n images
CardsOnPage(n, k) == Min(9, n - 9 * (k - 1))

\* the grid lines that the rule of the filled cells gives for a page of c cards
GridRule(c, px) ==
    LET filledCols  == Min(c, 3)
        filledRows  == Ceil(c, 3)
        lastRowCols == c - (filledRows - 1) * 3
        o    == CellRect(0, 0, px)
        X(col) == o.x + col * o.w
        Y(row) == o.y + row * o.h
    IN  { Seg(X(0), Y(row), X(IF row = filledRows THEN lastRowCols ELSE filledCols), Y(row)) :
            row \in 0..filledRows }
        \cup
        { Seg(X(col), Y(0), X(col), Y(IF col > lastRowCols THEN filledRows - 1 ELSE filledRows)) :
            col \in 0..filledCols }

GridOk(pages, n, px) ==
    \A k \in 1..Len(pages) :
        LET c  == CardsOnPage(n, k)
            st == pages[k].strokes
        IN  /\ Len(st) = Ceil(c, 3) + Min(c, 3) + 2
            /\ { st[j] : j \in 1..Len(st) } = GridRule(c, px)

\* C9: in grid mode, for every number of cards on a page, horizontal line
\* row spans the columns [0, filledCols), the line row = filledRows spans
\* [0, lastRowCols); vertical line col spans the rows [0, filledRows), the
\* columns beyond lastRowCols span [0, filledRows - 1); in the preview and
\* in the exported document.
C9_GridSpans ==
    /\ PreviewFinished /\ settings.cutLines = "grid" =>
          GridOk(pageContainer, Len(allImages), TRUE)
    /\ PdfBuilt /\ lastEvent.settings.cutLines = "grid" =>
          GridOk(lastEvent.pages, Len(allImages), FALSE)

\* seven cards: the last horizontal line is one column wide and the vertical
\* lines 2 and 3 stop one row short
C9_Witness ==
    /\ PreviewFinished
    /\ settings.cutLines = "grid"
    /\ Len(allImages) = 7
    /\ LET o  == CellRect(0, 0, TRUE)
           st == { pageContainer[1].strokes[j] : j \in 1..Len(pageContainer[1].strokes) }
       IN  /\ Seg(o.x, o.y + 3 * o.h, o.x + o.w, o.y + 3 * o.h) \in st
           /\ Seg(o.x + 2 * o.w, o.y, o.x + 2 * o.w, o.y + 2 * o.h) \in st
           /\ Seg(o.x + 3 * o.w, o.y, o.x + 3 * o.w, o.y + 2 * o.h) \in st
           /\ Seg(o.x + o.w, o.y, o.x + o.w, o.y + 3 * o.h) \in st

Abs(v) == IF v < 0 THEN 0 - v ELSE v

Ends(sg) == { <<sg.x1, sg.y1>>, <<sg.x2, sg.y2>> }

Horizontal(sg) == sg.y1 = sg.y2

\* point e lies outside the closed rectangle r
Outside(e, r) == e[1] < r.x \/ e[1] > r.x + r.w \/ e[2] < r.y \/ e[2] > r.y + r.h

\* sg is a mark of length len at corner cn of r that leads away from r
MarkAt(sg, cn, r, len) ==
    /\ cn \in Ends(sg)
    /\ \/ sg.x1 = sg.x2 /\ Abs(sg.y1 - sg.y2) = len
       \/ sg.y1 = sg.y2 /\ Abs(sg.x1 - sg.x2) = len
    /\ \E e \in Ends(sg) : e # cn /\ Outside(e, r)

\* sg has a point in the open rectangle r
CrossesInterior(sg, r) ==
    \/ /\ sg.y1 = sg.y2
       /\ r.y < sg.y1 /\ sg.y1 < r.y + r.h
       /\ Min(sg.x1, sg.x2) < r.x + r.w /\ r.x < Min(sg.x1, sg.x2) + Abs(sg.x1 - sg.x2)
    \/ /\ sg.x1 = sg.x2
       /\ r.x < sg.x1 /\ sg.x1 < r.x + r.w
       /\ Min(sg.y1, sg.y2) < r.y + r.h /\ r.y < Min(sg.y1, sg.y2) + Abs(sg.y1 - sg.y2)

CornersOk(pages, n, px) ==
    \A k \in 1..Len(pages) :
        LET c   == CardsOnPage(n, k)
            st  == pages[k].strokes
            len == IF px THEN Scale(Mm(4)) ELSE Mm(4)
        IN  /\ Len(st) = 8 * c
            /\ \A m \in 0..(c - 1) :
                  LET r == CellRect(m \div 3, m % 3, px)
                      corners == { <<r.x, r.y>>, <<r.x + r.w, r.y>>,
                                   <<r.x, r.y + r.h>>, <<r.x + r.w, r.y + r.h>> }
                      at(cn) == { j \in 1..8 : MarkAt(st[8 * m + j], cn, r, len) }
                  IN  /\ \A cn \in corners :
                            /\ Cardinality(at(cn)) = 2
                            /\ \E i, j \in at(cn) :
                                  Horizontal(st[8 * m + i]) /\ ~Horizontal(st[8 * m + j])
                      /\ \A j \in 1..8 : \E cn \in corners : j \in at(cn)
            /\ \A j \in 1..Len(st), m \in 0..(c - 1) :
                  ~CrossesInterior(st[j], CellRect(m \div 3, m % 3, px))

\* C10: in corners mode every filled cell, and no other, gets eight strokes
\* of 4 mm, two at each of its corners, each from the corner away from the
\* cell; no stroke has a point inside a card rectangle of the page.
C10_CornerMarks ==
    /\ PreviewFinished /\ settings.cutLines = "corners" =>
          CornersOk(pageContainer, Len(allImages), TRUE)
    /\ PdfBuilt /\ lastEvent.settings.cutLines = "corners" =>
          CornersOk(lastEvent.pages, Len(allImages), FALSE)

C10_Witness ==
    /\ PreviewFinished
    /\ settings.cutLines = "corners"
    /\ Len(allImages) = 14
    /\ Len(pageContainer[1].strokes) = 72
    /\ Len(pageContainer[2].strokes) = 40
    /\ MarkAt(pageContainer[2].strokes[33], <<CellRect(1, 1, TRUE).x, CellRect(1, 1, TRUE).y>>,
              CellRect(1, 1, TRUE), Scale(Mm(4)))

----------------------------------------------------------------------------
(* The preview against the exported document, checked under SpecLayout *)

\* w is v multiplied by the preview scale factor 2.5
Times25(v, w) == 2 * w = 5 * v

SegTimes25(a, b) ==
    /\ Times25(a.x1, b.x1) /\ Times25(a.y1, b.y1)
    /\ Times25(a.x2, b.x2) /\ Times25(a.y2, b.y2)

PlaceTimes25(a, b) ==
    /\ a.img = b.img
    /\ Times25(a.x, b.x) /\ Times25(a.y, b.y)
    /\ Times25(a.w, b.w) /\ Times25(a.h, b.h)

\* the document was built while the preview of the same images and the same
\* settings stands complete
PreviewAndPdf == PdfBuilt /\ renderRuns = <<>> /\ lastEvent.settings = settings

\* C11: for every N >= 1, every page and every cut mode, the image
\* rectangles and the cut-guide segments of the preview are those of the
\* exported document with every coordinate multiplied by 2.5: as many pages,
\* as many rectangles and segments on each page, in the same order.
C11_PreviewIsScaledPdf ==
    PreviewAndPdf =>
        /\ Len(pageContainer) = Len(lastEvent.pages)
        /\ \A k \in 1..Len(pageContainer) :
              LET cv == pageContainer[k]
                  pg == lastEvent.pages[k]
              IN  /\ Len(cv.imgs) = Len(pg.imgs)
                  /\ \A j \in 1..Len(cv.imgs) : PlaceTimes25(pg.imgs[j], cv.imgs[j])
                  /\ Len(cv.strokes) = Len(pg.strokes)
                  /\ \A j \in 1..Len(cv.strokes) : SegTimes25(pg.strokes[j], cv.strokes[j])

\* eleven images with corner marks: two pages, sixteen marks on the second
C11_Witness ==
    /\ PreviewAndPdf
    /\ settings.cutLines = "corners"
    /\ Len(allImages) = 11
    /\ Len(pageContainer) = 2
    /\ Len(lastEvent.pages[2].strokes) = 16
    /\ Len(pageContainer[2].strokes) = 16
    /\ lastEvent.pages[2].imgs[2].x = MARGIN_X + Mm(CARD_W_MM)
    /\ pageContainer[2].imgs[2].x = Scale(MARGIN_X + Mm(CARD_W_MM))

\* C12 as stated: the line width and the dash pattern of the preview,
\* divided by the preview scale factor, are those set on the exported
\* document, for the solid and for the dashed style.
C12_SameStrokeStyle ==
    /\ \A w \in CutWidths : Times25(PdfLineWidth(w), CanvasLineWidth(w))
    /\ PreviewAndPdf /\ settings.cutLines # "none" =>
          \A k \in 1..Len(pageContainer) :
              LET cv == pageContainer[k].dash
                  pg == lastEvent.pages[k].dash
              IN  /\ Len(cv) = Len(pg)
                  /\ \A j \in 1..Len(cv) : j <= Len(pg) => Times25(pg[j], cv[j])

----------------------------------------------------------------------------
(* Properties of lookupCard, checked under SpecLookup *)

\* the records of the index filed under the name, in any letter case
Bucket(name) ==
    IF cardDB.loaded /\ toLowerCase(name) \in DOMAIN cardDB.map
    THEN cardDB.map[toLowerCase(name)]
    ELSE <<>>

SameSet(a, b) == toLowerCase(a) = toLowerCase(b)

\* lookupCard was called with a set
LookedUpWithSet == lookupArgs # Null /\ lookupArgs.set # <<>>

\* C4: with a set given, lookupCard returns absent when no record of the
\* name's bucket has that set code, also when the bucket is not empty; it
\* never returns a record of another set.
C4_NoFallbackInLookup ==
    LookedUpWithSet =>
        LET b == Bucket(lookupArgs.name)
        IN  /\ (\A i \in 1..Len(b) : ~SameSet(b[i].s, lookupArgs.set)) => lookupRes = Null
            /\ lookupRes # Null =>
                  /\ SameSet(lookupRes.s, lookupArgs.set)
                  /\ \E i \in 1..Len(b) : b[i] = lookupRes

C4_Witness ==
    /\ LookedUpWithSet
    /\ Len(Bucket(lookupArgs.name)) = 2
    /\ \A i \in 1..2 : ~SameSet(Bucket(lookupArgs.name)[i].s, lookupArgs.set)
    /\ lookupRes = Null

\* C5: with a set given, lookupCard returns a record of the name's bucket
\* whose set code equals the requested one ignoring letter case whenever
\* there is such a record, whatever the letter case of the stored set code
\* and of the requested one.
C5_SetMatchIgnoresCase ==
    LookedUpWithSet =>
        LET b == Bucket(lookupArgs.name)
        IN  (\E i \in 1..Len(b) : SameSet(b[i].s, lookupArgs.set)) =>
                /\ lookupRes # Null
                /\ SameSet(lookupRes.s, lookupArgs.set)

----------------------------------------------------------------------------
(* Properties of overlapping calls of loadCards, checked under SpecReload *)

\* the remote lookups and image fetches in flight
InFlight ==
    Cardinality({ j \in 1..Len(loadRuns) : loadRuns[j].state = "fetch" }) + Len(genRuns)

\* C13 as stated: in every state at most one remote lookup or image fetch
\* is in flight, whatever the user clicks while a batch is suspended.
C13_OneRequestInFlight == InFlight <= 1

\* C14 as stated: every remote lookup is issued at the end of a wait of
\* 80 ms that began after the previous remote lookup of the session had
\* returned.
C14_LookupsPaced == lastEvent.op = "lookup" => lastEvent.paced

\* C16 as stated: once all calls of loadCards have finished, cardSlots holds
\* the slots of the latest click only, one per entry of that click in input
\* order, and no slot pushed by an earlier call.
C16_RerunRestartsEmpty ==
    lastEvent.op = "loadDone" /\ loadRuns = <<>> =>
        /\ \A i \in 1..Len(prov) : ~prov[i].stale
        /\ lastEvent.latest =>
              /\ Len(cardSlots) = Len(lastEvent.entries)
              /\ \A i \in 1..Len(cardSlots) :
                    i <= Len(lastEvent.entries) =>
                        cardSlots[i].name = lastEvent.entries[i].name

----------------------------------------------------------------------------
(* Properties of loadCards and generatePreview, checked under Spec *)

\* neither the name + set lookup nor the name-only lookup finds a record
AbsentFromIndex(entry) ==
    lookupCard(entry.name, entry.set) = Null /\ lookupCard(entry.name, <<>>) = Null

C2_OneSlotPerEntry ==
    lastEvent.op = "loadDone" /\ lastEvent.solo =>
        /\ Len(cardSlots) = Len(lastEvent.entries)
        /\ \A i \in 1..Len(cardSlots) :
              i <= Len(lastEvent.entries) =>
                /\ cardSlots[i].name = lastEvent.entries[i].name
                /\ cardSlots[i].qty = lastEvent.entries[i].qty
                /\ cardSlots[i].selected = Null => cardSlots[i].error # Null

\* the same, for the runs during which Clear was not clicked
C2_UnlessCleared ==
    lastEvent.op = "loadDone" /\ lastEvent.solo /\ ~lastEvent.cleared =>
        /\ Len(cardSlots) = Len(lastEvent.entries)
        /\ \A i \in 1..Len(cardSlots) :
                /\ cardSlots[i].name = lastEvent.entries[i].name
                /\ cardSlots[i].qty = lastEvent.entries[i].qty
                /\ cardSlots[i].selected = Null => cardSlots[i].error # Null

\* C3 as stated: a slot resolved by the name-only fallback carries a warning.
C3_SlotCarriesWarning ==
    \A i \in 1..Len(prov) : prov[i].how = "fallback" => cardSlots[i].error # Null

IsFallbackWarning(m, entry) ==
    m.kind = "setFallback" /\ m.name = entry.name /\ m.set = entry.set

\* C3 as amended: the warning of a name-only fallback is an entry of the
\* error log and nothing else: the slot has a selected record and no error;
\* the log holds the warning, naming the entry and its set, when loadCards
\* completes, and holds nothing once Generate Preview has cleared it.
C3_WarningInLogOnly ==
    /\ \A i \in 1..Len(prov) :
          prov[i].how = "fallback" =>
            /\ cardSlots[i].error = Null
            /\ cardSlots[i].selected # Null
            /\ lastEvent.op = "loadDone" =>
                  \E j \in 1..Len(errorLog) : IsFallbackWarning(errorLog[j], prov[i].entry)
    /\ lastEvent.op = "generateStart" => errorLog = <<>>

\* a slot resolved by the fallback, after Generate Preview: no warning is left
C3_Witness ==
    /\ lastEvent.op = "generateStart"
    /\ errorLog = <<>>
    /\ \E i \in 1..Len(prov) :
          /\ prov[i].how = "fallback"
          /\ cardSlots[i].error = Null
          /\ cardSlots[i].selected.s # toLowerCase(prov[i].entry.set)

\* the images of one slot: front (and back) of the card, qty times over
FaceImage(card, quality, face) == getImageData(buildImageUrl(card.id, quality, face))

SlotImages(card, qty, quality) ==
    IF card.d
    THEN [j \in 1..(2 * qty) |->
            FaceImage(card, quality, IF j % 2 = 1 THEN "front" ELSE "back")]
    ELSE [j \in 1..qty |-> FaceImage(card, quality, "front")]

\* C6: generatePreview appends the images in slot order, the copies of one
\* slot next to each other and in each copy the front before the back: a
\* double-faced card of quantity q gives front, back, q times over.
C6_SlotAndFaceOrder ==
    lastEvent.op = "genDone" /\ lastEvent.clean =>
        /\ allImages = Flatten([j \in 1..Len(lastEvent.pushed) |->
                            SlotImages(lastEvent.pushed[j].card, lastEvent.pushed[j].qty,
                                       lastEvent.quality)])
        /\ \A i, j \in 1..Len(lastEvent.pushed) :
              i < j => lastEvent.pushed[i].k < lastEvent.pushed[j].k

C6_Witness ==
    /\ lastEvent.op = "genDone"
    /\ lastEvent.clean
    /\ Len(lastEvent.pushed) = 2
    /\ lastEvent.pushed[2].card.d
    /\ lastEvent.pushed[2].qty = 2
    /\ Len(allImages) = 5
    /\ allImages[2].data.face = "front"
    /\ allImages[3].data.face = "back"
    /\ allImages[4].data.face = "front"
    /\ allImages[5].data.face = "back"

\* one step takes a generatePreview call from awaiting one image to
\* awaiting the next
FetchHandover ==
    /\ Len(genRuns') = Len(genRuns)
    /\ \E r \in 1..Len(genRuns) :
          /\ genRuns[r].state = "fetch"
          /\ genRuns'[r].state = "fetch"
          /\ << genRuns'[r].k, genRuns'[r].f >> # << genRuns[r].k, genRuns[r].f >>

\* C15 as stated: between the completion of one image fetch of
\* generatePreview and the start of the next, the pacing interval elapses:
\* the call is never taken from one request to the next in a single step.
C15_ImageFetchesPaced == [][~FetchHandover]_vars

\* C18 as stated: when a generatePreview call that no other call overlapped
\* ends, every face of every slot it went through has its image in
\* allImages, except the faces whose own request failed.
C18_OnlyFailedRequestSkipped ==
    lastEvent.op = "genDone" /\ lastEvent.clean =>
        \A t \in 1..Len(lastEvent.tried) :
            LET urls == getImageUrlsForCard(lastEvent.tried[t].card, lastEvent.quality)
            IN  \A f \in 1..Len(urls) :
                    f # lastEvent.tried[t].failed =>
                        \E i \in 1..Len(allImages) : allImages[i] = getImageData(urls[f])

\* C19 as stated: once loading the dataset has failed, at whatever point,
\* every slot is resolved through the remote lookup and none through the
\* index.
C19_RemoteOnlyAfterLoadFailure ==
    dbPhase = "done" /\ ~cardDBReady =>
        \A i \in 1..Len(prov) : prov[i].how \in {"remote", "remoteFail"}

\* C20: selectVariant with a variant of the slot's own variants list
\* replaces the selected record of that slot and its oracle id; the slot's
\* name, quantity, variants and error, the number and order of the slots and
\* every other slot are unchanged.
C20_SelectVariantFrame ==
    [][ /\ lastEvent'.op = "selectVariant"
        /\ lastEvent'.idx <= Len(cardSlots)
        /\ \E v \in 1..Len(cardSlots[lastEvent'.idx].variants) :
              cardSlots[lastEvent'.idx].variants[v] = lastEvent'.variant
        => /\ Len(cardSlots') = Len(cardSlots)
           /\ \A i \in 1..Len(cardSlots) :
                 IF i = lastEvent'.idx
                 THEN /\ cardSlots'[i].selected = lastEvent'.variant
                      /\ cardSlots'[i].oracleId = lastEvent'.variant.o
                      /\ cardSlots'[i].name = cardSlots[i].name
                      /\ cardSlots'[i].qty = cardSlots[i].qty
                      /\ cardSlots'[i].variants = cardSlots[i].variants
                      /\ cardSlots'[i].error = cardSlots[i].error
                 ELSE cardSlots'[i] = cardSlots[i] ]_vars

\* the second printing was selected for a slot of two slots
C20_Witness ==
    /\ lastEvent.op = "selectVariant"
    /\ Len(cardSlots) = 2
    /\ cardSlots[lastEvent.idx].selected = lastEvent.variant
    /\ cardSlots[lastEvent.idx].selected.id = "i2"
    /\ Len(cardSlots[lastEvent.idx].variants) = 2
    /\ prov[lastEvent.idx].how = "fallback"

----------------------------------------------------------------------------
(* A batch in which every entry fails, checked under SpecBatch *)

\* generatePreview found no slot with a selected record
NoValidCards == lastEvent.op = "noValidCards"

\* a generatePreview call that no other call overlapped has ended and every
\* slot it went through failed
AllFetchesFailed ==
    lastEvent.op = "genDone" /\ lastEvent.clean /\ lastEvent.pushed = <<>>

\* C17 as stated: when every entry of a batch fails the outcome is a
\* no-results message, allImages is empty, the view is not the preview and
\* Download PDF is disabled.
C17_AllImagesStayEmpty ==
    /\ NoValidCards =>
          /\ errorLog = <<NoCardsMsg>>
          /\ allImages = <<>>
          /\ currentView # "preview"
          /\ btnDownloadDisabled
    /\ AllFetchesFailed =>
          /\ errorLog = <<NoImagesMsg>>
          /\ allImages = <<>>
          /\ currentView # "preview"
          /\ btnDownloadDisabled

\* C17 as amended: the outcome is the no-results message, the view is not
\* the preview, Download PDF is disabled, no page is rendered and no image
\* is added to allImages: allImages is empty when every fetch failed, and is
\* left as it was, possibly with the images of an earlier preview, when no
\* slot has a selected record.
C17_NoResultsOutcome ==
    /\ [](NoValidCards =>
             errorLog = <<[kind |-> "noCards"]>> /\ currentView = "cards" /\ btnDownloadDisabled)
    /\ [](AllFetchesFailed =>
             /\ errorLog = <<[kind |-> "noImages"]>>
             /\ allImages = <<>>
             /\ currentView # "preview"
             /\ btnDownloadDisabled)
    /\ [][ /\ NoValidCards' => allImages' = allImages
          /\ (NoValidCards' \/ AllFetchesFailed') =>
                /\ pageContainer' = pageContainer
                /\ renderRuns' = renderRuns
                /\ pageCount' = pageCount ]_vars

\* every entry of the second batch failed and Generate Preview answered
\* with the message, while the images of the first preview are still held
C17_Witness ==
    /\ NoValidCards
    /\ errorLog = <<NoCardsMsg>>
    /\ Len(cardSlots) = 2
    /\ \A i \in 1..Len(cardSlots) :
          cardSlots[i].selected = Null /\ cardSlots[i].error # Null
    /\ Len(allImages) = 2
    /\ currentView = "cards"
    /\ btnDownloadDisabled

----------------------------------------------------------------------------
(* C21: a slot's variants list and its selected record *)

\* the slot's list holds its selected record
HoldsSelected(slot) ==
    \E v \in 1..Len(slot.variants) : slot.variants[v] = slot.selected

\* every record of the slot's list has the oracle identity of selected
SameOracle(slot) ==
    \A v \in 1..Len(slot.variants) : slot.variants[v].o = slot.selected.o

\* C21: every slot that has a selected record has a variants list that
\* contains that record, and all records of the list share the oracle
\* identity of selected; on the local path, on the remote path and after a
\* re-selection.
C21_VariantsHoldSelected ==
    \A i \in 1..Len(cardSlots) :
        cardSlots[i].selected # Null =>
            HoldsSelected(cardSlots[i]) /\ SameOracle(cardSlots[i])

----------------------------------------------------------------------------
(* C22: resolution on the loaded index is a function of the input *)

\* the call of loadCards that just ended ran on the loaded index, as did an
\* earlier call over the same entries
Rerun ==
    /\ cardDBReady
    /\ lastEvent.op = "loadDone"
    /\ lastEvent.earlier # Null
    /\ lastEvent.earlier.entries = lastEvent.entries

\* C22: a loadCards call over the loaded index leaves the cardSlots that the
\* earlier call over the same input left, whatever slots, selections or
\* suspended calls the program held when it began.
C22_SameInputSameSlots == Rerun => cardSlots = lastEvent.earlier.slots

\* the list was loaded, a variant re-selected, and the same list loaded again
C22_Witness ==
    /\ Rerun
    /\ cardSlots = lastEvent.earlier.slots
    /\ Len(lastEvent.before) = Len(cardSlots)
    /\ \E i \in 1..Len(cardSlots) :
          /\ lastEvent.before[i].selected # Null
          /\ lastEvent.before[i].selected # cardSlots[i].selected

----------------------------------------------------------------------------
(* C23: parseInput recovers the parts of a line, checked under SpecParse *)

\* the entry the parts of the parsed line stand for
Typed ==
    [qty  |-> parseArg.qty.value,
     name |-> parseArg.name,
     set  |-> parseArg.set.upper]

\* C23 as stated: for every line "<qty> <name> [<SET>]", qty any decimal
\* integer or omitted, parseInput yields exactly the entry (qty or 1, name,
\* SET in upper case or none).
C23_RecoversParts == parseArg # Null => parseRes = << Typed >>

\* the integer, when typed, is positive; when it is omitted the name does not
\* begin with a digit
PlainLine ==
    IF parseArg.qty.text = <<>>
    THEN Head(parseArg.name) \notin Digits
    ELSE parseArg.qty.value >= 1

\* C23: for every line "<qty> <name> [<SET>]" whose integer is positive, or
\* omitted before a name that does not begin with a digit, parseInput yields
\* exactly one entry: quantity qty (1 when omitted), the name text, and SET
\* in upper case (none when the bracket is omitted).
C23_RecoversPlainParts == parseArg # Null /\ PlainLine => parseRes = << Typed >>

C23_Witness ==
    /\ parseArg # Null
    /\ parseArg.qty.value = 12
    /\ parseArg.name = <<"A", " ", "b">>
    /\ parseArg.set.text = <<"2", "x", "y">>
    /\ parseRes = << [qty |-> 12, name |-> <<"A", " ", "b">>, set |-> <<"2", "X", "Y">>] >>

----------------------------------------------------------------------------
(* C24: the two maps of the index, checked under SpecLookup *)

\* loadCardDB has just ended with the index built from lastEvent.cards
IndexBuilt == lastEvent.op = "loadCardDB" /\ cardDBReady

\* the records of cards whose lower-cased name is key, in dataset order
OfName(cards, key) == SelectSeq(cards, LAMBDA c : toLowerCase(c.n) = key)

\* the records of cards whose oracle id is id, in dataset order
OfOracle(cards, id) == SelectSeq(cards, LAMBDA c : c.o = id)

\* every bucket of cardDB holds the records of its name, each as often as
\* the dataset does and in dataset order; every record has its bucket; a
\* name-only lookup returns the first record of the name
ByNameOk(cards) ==
    /\ \A key \in DOMAIN cardDB.map : cardDB.map[key] = OfName(cards, key)
    /\ \A i \in 1..Len(cards) :
          /\ toLowerCase(cards[i].n) \in DOMAIN cardDB.map
          /\ lookupCardIn(cardDB, cards[i].n, <<>>)
                = Head(OfName(cards, toLowerCase(cards[i].n)))

\* every bucket of oracleIndex holds the records of its oracle id, in
\* dataset order
ByOracleOk(cards) ==
    \A id \in DOMAIN oracleIndex.map :
        id # "" /\ oracleIndex.map[id] = OfOracle(cards, id)

\* C24 as stated: every record of the dataset is in the bucket of its own
\* name only and in the byOracleId bucket of its oracle id, buckets keep
\* dataset order and the records of one byOracleId bucket share the oracle id.
C24_EveryRecordInBothMaps ==
    IndexBuilt =>
        /\ ByNameOk(lastEvent.cards)
        /\ ByOracleOk(lastEvent.cards)
        /\ \A i \in 1..Len(lastEvent.cards) :
              lastEvent.cards[i].o \in DOMAIN oracleIndex.map

\* C24: after loadCardDB succeeds every record is in exactly one byName
\* bucket, the one keyed by its lower-cased name, buckets keep dataset order
\* and a name-only lookup returns the first record of the name; every record
\* that has an oracle id is in the byOracleId bucket of that id, a record
\* without one is in no byOracleId bucket, and the records of one byOracleId
\* bucket share the oracle id.
C24_IndexedByNameAndOracle ==
    IndexBuilt =>
        /\ ByNameOk(lastEvent.cards)
        /\ ByOracleOk(lastEvent.cards)
        /\ \A i \in 1..Len(lastEvent.cards) :
              lastEvent.cards[i].o # "" =>
                  lastEvent.cards[i].o \in DOMAIN oracleIndex.map

\* two records whose names differ in case only share one bucket, in order
C24_Witness ==
    /\ IndexBuilt
    /\ Len(lastEvent.cards) = 2
    /\ lastEvent.cards[1].n = <<"A", "b">>
    /\ lastEvent.cards[2].n = <<"a", "B">>
    /\ cardDB.map[<<"a", "b">>] = lastEvent.cards
    /\ oracleIndex.map["o1"] = lastEvent.cards

----------------------------------------------------------------------------
(* C25: the grid lines and the edges of the filled cells, under SpecLayout *)

\* cell (row, col) of a page of c cards holds a card
Filled(c, row, col) ==
    row \in 0..2 /\ col \in 0..2 /\ row * 3 + col < c

\* the unit edge from grid point (row, col) to the right borders a filled cell
BordersAcross(c, row, col) == Filled(c, row, col) \/ Filled(c, row - 1, col)

\* the unit edge from grid point (row, col) downwards borders a filled cell
BordersDown(c, row, col) == Filled(c, row, col) \/ Filled(c, row, col - 1)

\* a stroke of st lies on the horizontal line at y and includes [xa, xb]
StrokedAcross(st, y, xa, xb) ==
    \E j \in 1..Len(st) :
        /\ st[j].y1 = y /\ st[j].y2 = y
        /\ Min(st[j].x1, st[j].x2) <= xa
        /\ xb <= (IF st[j].x1 < st[j].x2 THEN st[j].x2 ELSE st[j].x1)

\* a stroke of st lies on the vertical line at x and includes [ya, yb]
StrokedDown(st, x, ya, yb) ==
    \E j \in 1..Len(st) :
        /\ st[j].x1 = x /\ st[j].x2 = x
        /\ Min(st[j].y1, st[j].y2) <= ya
        /\ yb <= (IF st[j].y1 < st[j].y2 THEN st[j].y2 ELSE st[j].y1)

\* every stroke runs along a grid line between two grid points
OnGrid(sg, o) ==
    /\ \E a, b \in 0..3 : sg.x1 = o.x + a * o.w /\ sg.x2 = o.x + b * o.w
    /\ \E a, b \in 0..3 : sg.y1 = o.y + a * o.h /\ sg.y2 = o.y + b * o.h
    /\ sg.x1 = sg.x2 \/ sg.y1 = sg.y2

\* the strokes st of a page of c cards cover the unit edges that border a
\* filled cell and no other unit edge; o is the rectangle of cell (0, 0)
EdgesCovered(st, c, o) ==
    /\ \A j \in 1..Len(st) : OnGrid(st[j], o)
    /\ \A row \in 0..3, col \in 0..2 :
          StrokedAcross(st, o.y + row * o.h, o.x + col * o.w, o.x + (col + 1) * o.w)
              <=> BordersAcross(c, row, col)
    /\ \A row \in 0..2, col \in 0..3 :
          StrokedDown(st, o.x + col * o.w, o.y + row * o.h, o.y + (row + 1) * o.h)
              <=> BordersDown(c, row, col)

EdgesOk(pages, n, px) ==
    \A k \in 1..Len(pages) :
        EdgesCovered(pages[k].strokes, CardsOnPage(n, k), CellRect(0, 0, px))

\* C25: in grid mode, on every page of 1..9 cards, the stroked lines cover
\* exactly the edges of the filled cells: every unit edge of a filled cell
\* lies on a stroked line and no stroked line includes a unit edge that
\* borders no filled cell; in the preview and in the exported document.
C25_GridCoversFilledCells ==
    /\ PreviewFinished /\ settings.cutLines = "grid" =>
          EdgesOk(pageContainer, Len(allImages), TRUE)
    /\ PdfBuilt /\ lastEvent.settings.cutLines = "grid" =>
          EdgesOk(lastEvent.pages, Len(allImages), FALSE)

\* a single remaining card: the second page of ten images has the four
\* edges of cell (0, 0) and nothing else
C25_Witness ==
    /\ PreviewFinished
    /\ settings.cutLines = "grid"
    /\ Len(allImages) = 10
    /\ Len(pageContainer) = 2
    /\ LET o == CellRect(0, 0, TRUE)
       IN  { pageContainer[2].strokes[j] : j \in 1..Len(pageContainer[2].strokes) }
             = { Seg(o.x, o.y, o.x + o.w, o.y), Seg(o.x, o.y + o.h, o.x + o.w, o.y + o.h),
                 Seg(o.x, o.y, o.x, o.y + o.h), Seg(o.x + o.w, o.y, o.x + o.w, o.y + o.h) }

----------------------------------------------------------------------------
(* C26: the Download PDF button *)

\* the handlers after which the button is disabled: the start of
\* generatePreview, Clear, the end of loadCards, Back to Cards
DisablesDownload ==
    lastEvent.op \in {"generateStart", "clear", "loadDone", "backToCards"}

\* C26: the Download PDF button is enabled only if allImages is not empty and
\* the view is 'preview'; it is disabled when a generatePreview run starts,
\* after Clear, after loadCards has completed and after Back to Cards; and
\* generatePDF never builds a document from an empty image list.
C26_DownloadOnlyWithPreview ==
    /\ ~btnDownloadDisabled => Len(allImages) > 0 /\ currentView = "preview"
    /\ DisablesDownload => btnDownloadDisabled
    /\ lastEvent.op = "generatePDF" =>
          Len(lastEvent.images) > 0 /\ Len(lastEvent.pages) > 0

\* Back to Cards was clicked in a preview that holds images
C26_Witness ==
    /\ lastEvent.op = "backToCards"
    /\ Len(allImages) > 0
    /\ currentView = "cards"
    /\ btnDownloadDisabled

----------------------------------------------------------------------------
(* C27: selected and error of a slot *)

\* C27: every slot has exactly one of selected and error: a slot with a
\* selected record has no error, and a slot without one has an error message.
C27_SelectedXorError ==
    \A i \in 1..Len(cardSlots) :
        (cardSlots[i].selected = Null) <=> (cardSlots[i].error # Null)

\* a list of two entries on the loaded index: the first is not found, the
\* second is resolved
C27_Witness ==
    /\ cardDBReady
    /\ lastEvent.op = "loadDone"
    /\ Len(cardSlots) = 2
    /\ cardSlots[1].selected = Null
    /\ cardSlots[1].error = [kind |-> "notFound", name |-> <<"z", "z">>, set |-> <<>>]
    /\ cardSlots[2].selected # Null
    /\ cardSlots[2].error = Null

----------------------------------------------------------------------------
(* C28: the page canvases after overlapping renderPreview calls *)

\* C28: once every renderPreview call has finished, also when a settings
\* change started one while an earlier one was suspended, the preview
\* container holds exactly pageCount page canvases, one per page index in
\* increasing order, none duplicated or missing.
C28_OneCanvasPerPage ==
    renderRuns = <<>> /\ currentView = "preview" =>
        /\ Len(pageContainer) = pageCount
        /\ \A k \in 1..Len(pageContainer) : pageContainer[k].label = <<k, pageCount>>

----------------------------------------------------------------------------
(* C29: the state Clear leaves *)

\* C29: from a click on Clear until the next click on Load Cards, cardSlots
\* and allImages are empty, pageCount is 0 and the view is 'empty', also
\* when Clear was clicked while generatePreview or loadCards was suspended.
C29_ClearedStaysEmpty ==
    cleared =>
        /\ cardSlots = <<>>
        /\ allImages = <<>>
        /\ pageCount = 0
        /\ currentView = "empty"

----------------------------------------------------------------------------
(* C30: the length of allImages and the page count of the statistics *)

\* the slots that have a selected record, in order
WithSelected(slots) == SelectSeq(slots, LAMBDA sl : sl.selected # Null)

RECURSIVE FaceSum(_)
\* the sum over the slots with a selected record of quantity times the
\* number of faces
FaceSum(slots) ==
    IF Len(slots) = 0 THEN 0
    ELSE (IF Head(slots).selected = Null THEN 0
          ELSE Head(slots).qty * (IF Head(slots).selected.d THEN 2 ELSE 1))
         + FaceSum(Tail(slots))

\* generatePreview has just ended, none of its image fetches failed, no
\* loadCards call is still filling cardSlots, neither Clear nor another
\* generatePreview call ran meanwhile, and the call took its records and
\* quantities from the slots as they are
FetchedAllSlots ==
    /\ lastEvent.op = "genDone"
    /\ lastEvent.clean
    /\ loadRuns = <<>>
    /\ \A t \in 1..Len(lastEvent.tried) : lastEvent.tried[t].failed = 0
    /\ Len(lastEvent.pushed) = Len(WithSelected(cardSlots))
    /\ \A j \in 1..Len(lastEvent.pushed) :
          /\ lastEvent.pushed[j].card = WithSelected(cardSlots)[j].selected
          /\ lastEvent.pushed[j].qty = WithSelected(cardSlots)[j].qty

\* C30: when no image fetch fails and no slot changes between Load Cards and
\* the end of Generate Preview, allImages holds the sum over the slots with a
\* selected record of quantity times (2 if double-faced, else 1) images,
\* slots without a selected record contribute none, and pageCount is the
\* page count shown in the card-list statistics.
C30_ImageCountMatchesStats ==
    FetchedAllSlots =>
        /\ Len(allImages) = FaceSum(cardSlots)
        /\ listStats # Null
        /\ pageCount = listStats.pages

\* twelve copies of a double-faced card: 24 images on 3 pages
C30_Witness ==
    /\ FetchedAllSlots
    /\ Len(cardSlots) = 1
    /\ cardSlots[1].qty = 12
    /\ cardSlots[1].selected.d
    /\ Len(allImages) = 24
    /\ pageCount = 3
    /\ listStats.pages = 3

====
